---- MODULE Spec2Model ----
(***************************************************************************)
(* A model of retrofy, a source-to-source compiler that rewrites modern    *)
(* Python constructs (match statements, inline assignments, ...) into      *)
(* older syntax.                                                           *)
(*                                                                         *)
(* Part 1 models the match-statement desugaring: the compiled if/elif      *)
(* chain (as pinned by the expected outputs of the test-suite) and its     *)
(* evaluation on a subject by the Python runtime.                          *)
(* Part 2 models the inline-assignment (walrus) rewriter of                *)
(* retrofy/_transformations/walrus.py and the execution of while loops     *)
(* before and after the rewrite.                                           *)
(***************************************************************************)
EXTENDS Integers, Sequences, FiniteSets, TLC

VARIABLES
    m_pc,       \* "build" | "ready" | "eval" | "done"
    m_cases,    \* the cases of the match statement, in source order
    m_chain,    \* the compiled if/elif/else chain (a sequence of branches)
    m_subject,  \* the value the compiled function is called with
    m_idx,      \* index of the branch of m_chain whose condition is tested next
    m_tested,   \* case numbers of the branches tested so far, in test order
    m_out,      \* outcome of the evaluation
    w_pc,       \* "idle" | "walk" | "done" | "error" | "ran"
    w_src,      \* the module handed to convert_walrus_operator
    w_events,   \* the visit/leave calls of the traversal still to be made
    assignments_stack,  \* WalrusOperatorTransformer.assignments_stack
    w_frames,   \* the statement lists under construction, innermost last
    w_out,      \* the rewritten module
    w_run,      \* what running the loop before and after the rewrite did
    te_pc,      \* "idle" | "analyse" | "transform" | "done"
    te_run,     \* 1 in transform_typing_extensions(x), 2 when it is applied to its output
    te_src,     \* the module x
    te_in,      \* the module the current run parses
    te_events,  \* the visit/leave calls of the current pass still to be made
    analysis,   \* the fields of the TypingAnalysisVisitor
    transformer,    \* the fields of the TypingExtensionsTransformer
    te_frames,  \* the statement lists under construction, innermost last
    te_first,   \* the module the first run returned
    te_out,     \* the module the current run returned
    p_pc,       \* "idle" | "walk" | "done": stage of a single-pass rewriter
    p_fn,       \* the rewriter that was called
    p_run,      \* 1 in R(x), 2 when R is applied to its own output
    p_in,       \* the module the current run was given
    p_events,   \* the leave calls of the traversal still to be made
    p_self,     \* the fields of the transformer object
    p_frames,   \* the module body with the nodes left so far replaced
    p_first,    \* the module the first run returned
    p_out,      \* the module the current run returned
    sys_meta_path,  \* sys.meta_path: the finders the import system asks, in order
    h_registered,   \* the packages handed to register_hook so far
    h_spec,     \* the module find_spec was last asked for, and what it returned
    h_calls     \* the number of calls made so far

matchVars == <<m_pc, m_cases, m_chain, m_subject, m_idx, m_tested, m_out>>

walrusVars == <<w_pc, w_src, w_events, assignments_stack, w_frames, w_out, w_run>>

typingVars ==
    <<te_pc, te_run, te_src, te_in, te_events, analysis, transformer, te_frames,
      te_first, te_out>>

pureVars == <<p_pc, p_fn, p_run, p_in, p_events, p_self, p_frames, p_first, p_out>>

hookVars == <<sys_meta_path, h_registered, h_spec, h_calls>>

extVars == <<typingVars, pureVars, hookVars>>

vars == <<matchVars, walrusVars, extVars>>

\* No run of a loop has been made.
NotRun == [ran |-> FALSE, stream |-> <<>>, flag |-> 0, before |-> <<>>, after |-> <<>>]

\* The walrus rewriter is not in use.
WalrusIdle ==
    /\ w_pc = "idle"
    /\ w_src = <<>>
    /\ w_events = <<>>
    /\ assignments_stack = <<>>
    /\ w_frames = <<>>
    /\ w_out = <<>>
    /\ w_run = NotRun

\* No single-pass rewriter is in use.
PureIdle ==
    /\ p_pc = "idle"
    /\ p_fn = ""
    /\ p_run = 0
    /\ p_in = <<>>
    /\ p_events = <<>>
    /\ p_self = <<>>
    /\ p_frames = <<>>
    /\ p_first = <<>>
    /\ p_out = <<>>

\* No find_spec call has been made.
NoSpec == [fullname |-> <<>>, loader |-> ""]

\* The import hook is not in use.
HookIdle ==
    /\ sys_meta_path = <<>>
    /\ h_registered = {}
    /\ h_spec = NoSpec
    /\ h_calls = 0

\* The typing-extension rewriter is not in use.
TypingIdle ==
    /\ te_pc = "idle"
    /\ te_run = 0
    /\ te_src = <<>>
    /\ te_in = <<>>
    /\ te_events = <<>>
    /\ analysis = <<>>
    /\ transformer = <<>>
    /\ te_frames = <<>>
    /\ te_first = <<>>
    /\ te_out = <<>>

(***************************************************************************)
(* Bounds of the model.                                                    *)
(***************************************************************************)
MaxCases == 2

\* The depth to which if/while statements are nested in a module.
MaxDepth == 2

\* The number of values f() returns before it returns 0 for ever.
MaxStream == 3

(***************************************************************************)
(* Python values.                                                          *)
(***************************************************************************)
IntV(n)   == [t |-> "int", n |-> n]
FloatV(n) == [t |-> "float", n |-> n]
BoolV(n)  == [t |-> "bool", n |-> n]
NoneV     == [t |-> "none"]
StrV(cs)  == [t |-> "str", chars |-> cs]
BytesV(b) == [t |-> "bytes", octets |-> b]
TupleV(s) == [t |-> "tuple", items |-> s]
ListV(s)  == [t |-> "list", items |-> s]
DictV(ks, vs) == [t |-> "dict", keys |-> ks, vals |-> vs]
ObjV(c, ns, vs) == [t |-> "obj", cls |-> c, names |-> ns, vals |-> vs]

TrueV  == BoolV(1)
FalseV == BoolV(0)

IsNumber(v) == v.t \in {"int", "float", "bool"}

\* Position of x in the sequence s, 0 when absent.
IndexOf(s, x) ==
    IF \E i \in 1..Len(s) : s[i] = x
    THEN CHOOSE i \in 1..Len(s) : s[i] = x /\ \A j \in 1..(i - 1) : s[j] # x
    ELSE 0

(***************************************************************************)
(* The classes of the test environment and their field-name tables.        *)
(* "Point" declares __match_args__ = ("x", "y"); "Point1" declares a       *)
(* table with the single name "x"; "Point0" declares no table at all.      *)
(***************************************************************************)
UserClasses == {"Point", "Point1", "Point0"}

HasMatchArgs(cls) == cls \in {"Point", "Point1"}

MatchArgs(cls) ==
    IF cls = "Point" THEN <<"x", "y">>
    ELSE IF cls = "Point1" THEN <<"x">>
    ELSE <<>>

(***************************************************************************)
(* Python runtime semantics of the operations the compiled chain uses.     *)
(***************************************************************************)
RECURSIVE PyEq(_, _)
\* a == b
PyEq(a, b) ==
    IF IsNumber(a) /\ IsNumber(b) THEN a.n = b.n
    ELSE IF a.t # b.t THEN FALSE
    ELSE IF a.t = "none" THEN TRUE
    ELSE IF a.t = "str" THEN a.chars = b.chars
    ELSE IF a.t = "bytes" THEN a.octets = b.octets
    ELSE IF a.t \in {"tuple", "list"}
         THEN /\ Len(a.items) = Len(b.items)
              /\ \A i \in 1..Len(a.items) : PyEq(a.items[i], b.items[i])
    ELSE a = b

\* a is b, for the singletons True, False and None
PyIs(a, b) == a.t = b.t /\ (a.t = "bool" => a.n = b.n)

\* isinstance(v, collections.abc.Sequence)
IsSequenceABC(v) == v.t \in {"tuple", "list", "str", "bytes"}

\* isinstance(v, collections.abc.Mapping)
IsMappingABC(v) == v.t = "dict"

\* isinstance(v, cls) for a builtin or a user class (bool is a subclass of int)
IsInstance(v, cls) ==
    IF cls = "int" THEN v.t \in {"int", "bool"}
    ELSE IF cls \in UserClasses THEN v.t = "obj" /\ v.cls = cls
    ELSE v.t = cls

Ok(v)  == [ok |-> TRUE, v |-> v, err |-> ""]
Err(e) == [ok |-> FALSE, v |-> NoneV, err |-> e]

\* v[i] for the integer index i (0-based)
GetIndex(v, i) ==
    IF v.t \in {"tuple", "list"}
    THEN IF i < Len(v.items) THEN Ok(v.items[i + 1]) ELSE Err("IndexError")
    ELSE IF v.t = "bytes"
    THEN IF i < Len(v.octets) THEN Ok(IntV(v.octets[i + 1])) ELSE Err("IndexError")
    ELSE IF v.t = "str"
    THEN IF i < Len(v.chars) THEN Ok(StrV(<<v.chars[i + 1]>>)) ELSE Err("IndexError")
    ELSE IF v.t = "dict" THEN Err("KeyError")
    ELSE Err("TypeError")

\* v[key] for the string key
GetKey(v, key) ==
    IF v.t = "dict"
    THEN IF IndexOf(v.keys, key) # 0 THEN Ok(v.vals[IndexOf(v.keys, key)])
         ELSE Err("KeyError")
    ELSE Err("TypeError")

\* v.name
GetAttr(v, name) ==
    IF v.t = "obj" /\ IndexOf(v.names, name) # 0
    THEN Ok(v.vals[IndexOf(v.names, name)])
    ELSE Err("AttributeError")

\* getattr(v, cls.__match_args__[i])
GetMatchArg(v, cls, i) ==
    IF ~HasMatchArgs(cls) THEN Err("AttributeError")
    ELSE IF i >= Len(MatchArgs(cls)) THEN Err("IndexError")
    ELSE GetAttr(v, MatchArgs(cls)[i + 1])

\* list(v[from:])
GetSliceList(v, from) ==
    IF v.t \in {"tuple", "list"}
    THEN Ok(ListV(SubSeq(v.items, from + 1, Len(v.items))))
    ELSE IF v.t = "bytes"
    THEN Ok(ListV([j \in 1..(IF Len(v.octets) > from THEN Len(v.octets) - from ELSE 0)
                     |-> IntV(v.octets[from + j])]))
    ELSE IF v.t = "str"
    THEN Ok(ListV([j \in 1..(IF Len(v.chars) > from THEN Len(v.chars) - from ELSE 0)
                     |-> StrV(<<v.chars[from + j]>>)]))
    ELSE Err("TypeError")

\* len(v)
PyLen(v) ==
    IF v.t \in {"tuple", "list"} THEN Ok(IntV(Len(v.items)))
    ELSE IF v.t = "bytes" THEN Ok(IntV(Len(v.octets)))
    ELSE IF v.t = "str" THEN Ok(IntV(Len(v.chars)))
    ELSE IF v.t = "dict" THEN Ok(IntV(Len(v.keys)))
    ELSE Err("TypeError")

(***************************************************************************)
(* Access paths: the expression the compiled code builds for "the value    *)
(* being matched at this point", as a sequence of accesses applied to the  *)
(* subject.                                                                *)
(***************************************************************************)
AtIndex(i)     == [a |-> "idx", i |-> i]
AtKey(k)       == [a |-> "key", key |-> k]
AtAttr(n)      == [a |-> "attr", name |-> n]
AtMatchArg(c, i) == [a |-> "marg", cls |-> c, i |-> i]
AtSlice(i)     == [a |-> "slice", i |-> i]

Access(v, st) ==
    IF st.a = "idx" THEN GetIndex(v, st.i)
    ELSE IF st.a = "key" THEN GetKey(v, st.key)
    ELSE IF st.a = "attr" THEN GetAttr(v, st.name)
    ELSE IF st.a = "marg" THEN GetMatchArg(v, st.cls, st.i)
    ELSE GetSliceList(v, st.i)

RECURSIVE EvalPath(_, _)
\* The value of the access path on the subject v, or the error it raises.
EvalPath(v, path) ==
    IF path = <<>> THEN Ok(v)
    ELSE LET r == Access(v, Head(path))
         IN  IF r.ok THEN EvalPath(r.v, Tail(path)) ELSE r


(***************************************************************************)
(* Terms of a compiled branch condition.  A condition is a sequence of     *)
(* terms joined by "and", evaluated left to right with short circuit.      *)
(***************************************************************************)
TEq(path, v)       == [op |-> "eq", path |-> path, v |-> v]        \* path == v
TIs(path, v)       == [op |-> "is", path |-> path, v |-> v]        \* path is v
TIn(path, vs)      == [op |-> "in", path |-> path, vs |-> vs]      \* path in (v1, v2)
TIsSeq(path)       == [op |-> "isseq", path |-> path]
TLenEq(path, n)    == [op |-> "len_eq", path |-> path, n |-> n]    \* len(path) == n
TLenGe(path, n)    == [op |-> "len_ge", path |-> path, n |-> n]    \* len(path) >= n
TIsMap(path)       == [op |-> "ismap", path |-> path]
THasKey(path, k)   == [op |-> "haskey", path |-> path, key |-> k]  \* k in path
TIsInst(path, c)   == [op |-> "isinst", path |-> path, cls |-> c]  \* isinstance(path, c)
TOr(path, alts)    == [op |-> "or", path |-> path, alts |-> alts]  \* (a1) or (a2)
TGuard(path, v)    == [op |-> "guard", path |-> path, v |-> v]     \* the guard name == v
TArityLacks(c, r)  == [op |-> "arity", path |-> <<>>, cls |-> c, n |-> r]

Truth(b) == IF b THEN "T" ELSE "F"

RECURSIVE EvalTerm(_, _)
RECURSIVE EvalConj(_, _)
RECURSIVE EvalDisj(_, _)

\* The value of one term on the subject s: "T", "F" or the name of the
\* exception that evaluating it raises.
EvalTerm(term, s) ==
    IF term.op = "arity"
    THEN Truth(~(HasMatchArgs(term.cls) /\ Len(MatchArgs(term.cls)) >= term.n))
    ELSE IF term.op = "or" THEN EvalDisj(term.alts, s)
    ELSE LET r == EvalPath(s, term.path)
         IN  IF ~r.ok THEN r.err
             ELSE IF term.op \in {"eq", "guard"} THEN Truth(PyEq(r.v, term.v))
             ELSE IF term.op = "is" THEN Truth(PyIs(r.v, term.v))
             ELSE IF term.op = "in"
                  THEN Truth(\E i \in 1..Len(term.vs) : PyEq(r.v, term.vs[i]))
             ELSE IF term.op = "isseq"
                  THEN Truth(IsSequenceABC(r.v) /\ ~(r.v.t = "str" \/ IsMappingABC(r.v)))
             ELSE IF term.op = "ismap" THEN Truth(IsMappingABC(r.v))
             ELSE IF term.op = "isinst" THEN Truth(IsInstance(r.v, term.cls))
             ELSE IF term.op = "haskey"
                  THEN IF r.v.t = "dict" THEN Truth(IndexOf(r.v.keys, term.key) # 0)
                       ELSE IF r.v.t = "str" THEN "F"
                       ELSE IF r.v.t \in {"tuple", "list"} THEN "F"
                       ELSE "TypeError"
             ELSE \* len_eq, len_ge
                  LET n == PyLen(r.v)
                  IN  IF ~n.ok THEN n.err
                      ELSE IF term.op = "len_eq" THEN Truth(n.v.n = term.n)
                      ELSE Truth(n.v.n >= term.n)

\* t1 and t2 and ...
EvalConj(terms, s) ==
    IF terms = <<>> THEN "T"
    ELSE LET r == EvalTerm(Head(terms), s)
         IN  IF r = "T" THEN EvalConj(Tail(terms), s) ELSE r

\* (c1) or (c2) or ..., each ci a conjunction
EvalDisj(alts, s) ==
    IF alts = <<>> THEN "F"
    ELSE LET r == EvalConj(Head(alts), s)
         IN  IF r = "F" THEN EvalDisj(Tail(alts), s) ELSE r

(***************************************************************************)
(* Patterns, guards and cases of a match statement.                        *)
(***************************************************************************)
Lit(v)        == [k |-> "lit", v |-> v]
Cap(n)        == [k |-> "cap", name |-> n]
Wild          == [k |-> "wild"]
SeqP(es, rest) == [k |-> "seq", elems |-> es, rest |-> rest]  \* rest: name of a trailing *rest, or ""
MapP(ks, ps)  == [k |-> "map", keys |-> ks, pats |-> ps]
ClsP(c, pos, kwn, kwp) == [k |-> "cls", cls |-> c, pos |-> pos, kwn |-> kwn, kwp |-> kwp]
OrP(alts)     == [k |-> "or", alts |-> alts]
AsP(p, n)     == [k |-> "as", pat |-> p, name |-> n]

NoGuard       == [has |-> FALSE, name |-> "", v |-> NoneV]
GuardEq(n, v) == [has |-> TRUE, name |-> n, v |-> v]          \* if n == v

Case(p, g)    == [pat |-> p, guard |-> g]

RECURSIVE ConcatAll(_)
ConcatAll(ss) == IF ss = <<>> THEN <<>> ELSE Head(ss) \o ConcatAll(Tail(ss))

AllLiterals(ps) == \A i \in 1..Len(ps) : ps[i].k = "lit"

\* A pattern that always matches: a wildcard, a bare capture, or an "as" of one.
RECURSIVE Irrefutable(_)
Irrefutable(p) ==
    \/ p.k \in {"wild", "cap"}
    \/ p.k = "as" /\ Irrefutable(p.pat)

(***************************************************************************)
(* Compilation of a pattern against an access path: the terms of its       *)
(* condition and the bindings (name, path) it makes, both in order.        *)
(***************************************************************************)
PatResult(ts, bs) == [terms |-> ts, binds |-> bs]
Bind(n, path)     == [name |-> n, path |-> path]

\* A literal compilation that tests every literal by equality.
CompileLiteralByEquality(v, path) == <<TEq(path, v)>>

\* Literal pattern: identity for True, False and None, equality otherwise.
CompileLiteral(v, path) ==
    IF v.t \in {"bool", "none"} THEN <<TIs(path, v)>> ELSE <<TEq(path, v)>>

\* The type and length terms that open a sequence pattern of n fixed
\* positions.
SequenceHeader(path, n, starred) ==
    <<TIsSeq(path), IF starred THEN TLenGe(path, n) ELSE TLenEq(path, n)>>

\* A non-empty sequence pattern without a star whose elements are all
\* literals is compared with the tuple of its literals.
UsesTupleComparison(p) ==
    p.k = "seq" /\ p.rest = "" /\ p.elems # <<>> /\ AllLiterals(p.elems)

RECURSIVE CompilePattern(_, _)
CompilePattern(p, path) ==
    IF p.k = "lit" THEN PatResult(CompileLiteral(p.v, path), <<>>)
    ELSE IF p.k = "wild" THEN PatResult(<<>>, <<>>)
    ELSE IF p.k = "cap" THEN PatResult(<<>>, <<Bind(p.name, path)>>)
    ELSE IF p.k = "as"
    THEN LET sub == CompilePattern(p.pat, path)
         IN  PatResult(sub.terms, <<Bind(p.name, path)>> \o sub.binds)
    ELSE IF p.k = "seq"
    THEN IF UsesTupleComparison(p)
         THEN PatResult(<<TEq(path, TupleV([i \in 1..Len(p.elems) |-> p.elems[i].v]))>>, <<>>)
         ELSE LET n   == Len(p.elems)
                  sub == [i \in 1..n |-> CompilePattern(p.elems[i], path \o <<AtIndex(i - 1)>>)]
              IN  PatResult(
                      SequenceHeader(path, n, p.rest # "")
                          \o ConcatAll([i \in 1..n |-> sub[i].terms]),
                      ConcatAll([i \in 1..n |-> sub[i].binds])
                          \o (IF p.rest # "" THEN <<Bind(p.rest, path \o <<AtSlice(n)>>)>>
                              ELSE <<>>))
    ELSE IF p.k = "map"
    THEN LET n   == Len(p.keys)
             sub == [i \in 1..n |-> CompilePattern(p.pats[i], path \o <<AtKey(p.keys[i])>>)]
         IN  PatResult(
                 <<TIsMap(path)>>
                     \o ConcatAll([i \in 1..n |-> <<THasKey(path, p.keys[i])>> \o sub[i].terms]),
                 ConcatAll([i \in 1..n |-> sub[i].binds]))
    ELSE IF p.k = "cls"
    THEN LET np  == Len(p.pos)
             nk  == Len(p.kwn)
             ps  == [i \in 1..np |-> CompilePattern(p.pos[i], path \o <<AtMatchArg(p.cls, i - 1)>>)]
             ks  == [i \in 1..nk |-> CompilePattern(p.kwp[i], path \o <<AtAttr(p.kwn[i])>>)]
         IN  PatResult(
                 <<TIsInst(path, p.cls)>>
                     \o ConcatAll([i \in 1..np |-> ps[i].terms])
                     \o ConcatAll([i \in 1..nk |-> ks[i].terms]),
                 ConcatAll([i \in 1..np |-> ps[i].binds])
                     \o ConcatAll([i \in 1..nk |-> ks[i].binds]))
    ELSE \* "or" without bindings: one term
         IF AllLiterals(p.alts)
         THEN PatResult(<<TIn(path, [i \in 1..Len(p.alts) |-> p.alts[i].v])>>, <<>>)
         ELSE PatResult(
                 <<TOr(path, [i \in 1..Len(p.alts) |-> CompilePattern(p.alts[i], path).terms])>>,
                 <<>>)

\* The names a pattern binds.
BoundNames(p) == { b.name : b \in { CompilePattern(p, <<>>).binds[i] :
                                       i \in 1..Len(CompilePattern(p, <<>>).binds) } }

(***************************************************************************)
(* Compilation of a case into branches and assembly of the chain.          *)
(***************************************************************************)
Branch(c, a, kind, cond, binds, cls, given) ==
    [case |-> c, alt |-> a, kind |-> kind, cond |-> cond, binds |-> binds,
     cls |-> cls, given |-> given]

\* An OR pattern is expanded into one branch per alternative when its
\* alternatives bind names.
ExpandsOr(p) ==
    p.k = "or" /\ \E i \in 1..Len(p.alts) : CompilePattern(p.alts[i], <<>>).binds # <<>>

Alternatives(p) == IF ExpandsOr(p) THEN p.alts ELSE <<p>>

\* The guard with the bound name replaced by its access path.
GuardTerms(g, binds) ==
    IF ~g.has THEN <<>>
    ELSE LET i == CHOOSE j \in 1..Len(binds) : binds[j].name = g.name
         IN  <<TGuard(binds[i].path, g.v)>>

\* The arity available that the TypeError message of the arity check states.
ArityInMessage(cls) == 0

\* The branch that raises TypeError when the class of a positional class
\* pattern has no field-name table of sufficient length.
ArityCheck(c, a, p) ==
    IF p.k = "cls" /\ Len(p.pos) > 0
    THEN <<Branch(c, a, "raise",
                  <<TIsInst(<<>>, p.cls), TArityLacks(p.cls, Len(p.pos))>>,
                  <<>>, p.cls, Len(p.pos))>>
    ELSE <<>>

\* The branches of the c-th case: per alternative, an optional arity check
\* followed by the branch with the body.
CompileCase(cs, c) ==
    LET alts == Alternatives(cs.pat)
    IN  ConcatAll([a \in 1..Len(alts) |->
            LET r == CompilePattern(alts[a], <<>>)
            IN  ArityCheck(c, a, alts[a])
                  \o <<Branch(c, a, "body", r.terms \o GuardTerms(cs.guard, r.binds),
                              r.binds, "", 0)>>])

\* The last case becomes the "else" of the chain when it always matches.
EndsWithElse(cases) ==
    cases # <<>> /\ Irrefutable(cases[Len(cases)].pat) /\ ~cases[Len(cases)].guard.has

\* A chain that lists the compiled branches last to first.
ChainOrderReversed(branches) ==
    [i \in 1..Len(branches) |-> branches[Len(branches) + 1 - i]]

\* The order in which the compiled branches are chained.
ChainOrder(branches) == branches

\* The chain of a match statement.
Assemble(cases) ==
    LET n    == Len(cases)
        body == ChainOrder(ConcatAll([c \in 1..n |-> CompileCase(cases[c], c)]))
    IN  IF EndsWithElse(cases)
        THEN [i \in 1..Len(body) |->
                 IF i = Len(body) THEN [body[i] EXCEPT !.kind = "else", !.cond = <<>>]
                 ELSE body[i]]
        ELSE body

(***************************************************************************)
(* The inputs of the model: the cases a match statement is built from and  *)
(* the subjects the compiled function is called with.                      *)
(***************************************************************************)
I0 == IntV(0)
I5 == IntV(5)

LiteralCases ==
    { Case(Lit(v), NoGuard) : v \in {I0, FloatV(0), TrueV, FalseV, NoneV, IntV(1)} }

SequenceCases ==
    { Case(SeqP(<<Lit(I0), Lit(I0)>>, ""), NoGuard),
      Case(SeqP(<<Lit(I0), Cap("y")>>, ""), NoGuard),
      Case(SeqP(<<Cap("x"), Cap("y")>>, ""), GuardEq("x", I5)),
      Case(SeqP(<<Cap("x")>>, "rest"), NoGuard) }

MappingCases ==
    { Case(MapP(<<"k">>, <<Lit(I0)>>), NoGuard),
      Case(MapP(<<"k">>, <<SeqP(<<Cap("x")>>, "")>>), NoGuard),
      Case(MapP(<<"k">>, <<ClsP("Point", <<>>, <<"x">>, <<Cap("x")>>)>>), NoGuard) }

ClassCases ==
    { Case(ClsP("Point", <<>>, <<"x", "y">>, <<Lit(I0), Cap("y")>>), NoGuard),
      Case(ClsP("Point", <<>>, <<"x">>, <<Cap("x")>>), GuardEq("x", I5)) }
    \cup { Case(ClsP(c, <<Cap("x"), Cap("y")>>, <<>>, <<>>), NoGuard) : c \in UserClasses }
    \cup { Case(SeqP(<<ClsP("Point0", <<Cap("x")>>, <<>>, <<>>)>>, ""), NoGuard) }

OrCases ==
    { Case(OrP(<<Lit(IntV(1)), Lit(I5)>>), NoGuard),
      Case(OrP(<<ClsP("Point", <<>>, <<"x", "y">>, <<Cap("x"), Lit(I0)>>),
                 ClsP("Point", <<>>, <<"x", "y">>, <<Lit(I0), Cap("x")>>)>>), NoGuard),
      Case(OrP(<<ClsP("Point", <<>>, <<"x", "y">>, <<Cap("x"), Lit(I0)>>),
                 ClsP("Point", <<>>, <<"x">>, <<Cap("x")>>)>>), GuardEq("x", I5)),
      Case(AsP(OrP(<<ClsP("int", <<>>, <<>>, <<>>), Lit(I0)>>), "res"), NoGuard) }

CatchAllCases ==
    { Case(Wild, NoGuard), Case(Cap("n"), NoGuard), Case(Cap("n"), GuardEq("n", I5)) }

CasePool ==
    LiteralCases \cup SequenceCases \cup MappingCases \cup ClassCases
        \cup OrCases \cup CatchAllCases

Subjects ==
    { I0, IntV(1), I5, FloatV(0), TrueV, FalseV, NoneV, StrV(<<"a", "b">>),
      BytesV(<<0, 5>>),
      TupleV(<<I0, I0>>), ListV(<<I0, I0>>), TupleV(<<I0, I5>>), ListV(<<I0, I5>>),
      TupleV(<<I5, I0>>), ListV(<<I5, I0>>), ListV(<<>>), ListV(<<I5>>),
      DictV(<<"k">>, <<I0>>), DictV(<<"k">>, <<ListV(<<I5>>)>>), DictV(<<"j">>, <<I0>>),
      DictV(<<"k">>, <<ObjV("Point", <<"y">>, <<I0>>)>>),
      ObjV("Point", <<"x", "y">>, <<I0, I5>>), ObjV("Point", <<"x", "y">>, <<I5, I0>>),
      ObjV("Point", <<"x", "y">>, <<I0, I0>>), ObjV("Point", <<"x">>, <<I5>>),
      ObjV("Point", <<"y">>, <<I0>>),
      ObjV("Point1", <<"x", "y">>, <<I0, I5>>), ObjV("Point0", <<"x", "y">>, <<I0, I5>>),
      ListV(<<ObjV("Point0", <<"x", "y">>, <<I0, I5>>)>>) }

(***************************************************************************)
(* The state machine: a match statement is written case by case, compiled, *)
(* and the compiled chain is evaluated on a subject branch by branch.      *)
(***************************************************************************)
Pending == [kind |-> "pending", case |-> 0, alt |-> 0, env |-> <<>>, err |-> "",
            cls |-> "", avail |-> 0, given |-> 0]

\* No match statement has been written.
MatchIdle ==
    /\ m_pc = "build"
    /\ m_cases = <<>>
    /\ m_chain = <<>>
    /\ m_subject = NoneV
    /\ m_idx = 0
    /\ m_tested = <<>>
    /\ m_out = Pending

InitMatch == MatchIdle /\ WalrusIdle /\ TypingIdle /\ PureIdle /\ HookIdle

\* The programmer writes one more case; an always-matching case is the last.
AddCase(c) ==
    /\ m_pc = "build"
    /\ Len(m_cases) < MaxCases
    /\ ~EndsWithElse(m_cases)
    /\ m_cases' = Append(m_cases, c)
    /\ UNCHANGED <<m_pc, m_chain, m_subject, m_idx, m_tested, m_out, walrusVars, extVars>>

\* convert_match_statement: the match statement is replaced by its chain.
CompileMatch ==
    /\ m_pc = "build"
    /\ m_cases # <<>>
    /\ m_chain' = Assemble(m_cases)
    /\ m_pc' = "ready"
    /\ UNCHANGED <<m_cases, m_subject, m_idx, m_tested, m_out, walrusVars, extVars>>

\* The compiled function is called with the subject s.
CallWith(s) ==
    /\ m_pc = "ready"
    /\ m_subject' = s
    /\ m_idx' = 1
    /\ m_pc' = "eval"
    /\ UNCHANGED <<m_cases, m_chain, m_tested, m_out, walrusVars, extVars>>

\* The value of the condition of branch b on subject s.
CondValue(b, s) == IF b.kind = "else" THEN "T" ELSE EvalConj(b.cond, s)

\* The assignments at the head of a taken branch, evaluated in order: the
\* environment they produce, or the first error one of them raises.
RECURSIVE RunBinds(_, _, _)
RunBinds(binds, s, env) ==
    IF binds = <<>> THEN [ok |-> TRUE, env |-> env, err |-> ""]
    ELSE LET r == EvalPath(s, Head(binds).path)
         IN  IF r.ok
             THEN RunBinds(Tail(binds), s, Append(env, [name |-> Head(binds).name, v |-> r.v]))
             ELSE [ok |-> FALSE, env |-> env, err |-> r.err]

CurrentBranch == m_chain[m_idx]

Testing == m_pc = "eval" /\ m_idx <= Len(m_chain)

\* The condition of the current branch is false: go on to the next branch.
BranchSkipped ==
    /\ Testing
    /\ CondValue(CurrentBranch, m_subject) = "F"
    /\ m_tested' = Append(m_tested, CurrentBranch.case)
    /\ m_idx' = m_idx + 1
    /\ UNCHANGED <<m_pc, m_cases, m_chain, m_subject, m_out, walrusVars, extVars>>

\* The condition of the current branch is true and the branch holds a body:
\* the branch is entered, its bindings are assigned and the body runs (an
\* assignment that raises ends the branch with outcome "bind_error").
BranchTaken ==
    /\ Testing
    /\ CurrentBranch.kind \in {"body", "else"}
    /\ CondValue(CurrentBranch, m_subject) = "T"
    /\ LET r == RunBinds(CurrentBranch.binds, m_subject, <<>>)
       IN  m_out' = IF r.ok
                    THEN [Pending EXCEPT !.kind = "body", !.case = CurrentBranch.case,
                                         !.alt = CurrentBranch.alt, !.env = r.env]
                    ELSE [Pending EXCEPT !.kind = "bind_error", !.case = CurrentBranch.case,
                                         !.alt = CurrentBranch.alt, !.env = r.env,
                                         !.err = r.err]
    /\ m_tested' = Append(m_tested, CurrentBranch.case)
    /\ m_pc' = "done"
    /\ UNCHANGED <<m_cases, m_chain, m_subject, m_idx, walrusVars, extVars>>

\* The condition of an arity check is true: the TypeError is raised.
ArityErrorRaised ==
    /\ Testing
    /\ CurrentBranch.kind = "raise"
    /\ CondValue(CurrentBranch, m_subject) = "T"
    /\ m_out' = [Pending EXCEPT !.kind = "raise", !.case = CurrentBranch.case,
                                !.alt = CurrentBranch.alt, !.err = "TypeError",
                                !.cls = CurrentBranch.cls,
                                !.avail = ArityInMessage(CurrentBranch.cls),
                                !.given = CurrentBranch.given]
    /\ m_tested' = Append(m_tested, CurrentBranch.case)
    /\ m_pc' = "done"
    /\ UNCHANGED <<m_cases, m_chain, m_subject, m_idx, walrusVars, extVars>>

\* Evaluating the condition of the current branch raises an exception.
ConditionRaises ==
    /\ Testing
    /\ CondValue(CurrentBranch, m_subject) \notin {"T", "F"}
    /\ m_out' = [Pending EXCEPT !.kind = "error", !.case = CurrentBranch.case,
                                !.alt = CurrentBranch.alt,
                                !.err = CondValue(CurrentBranch, m_subject)]
    /\ m_tested' = Append(m_tested, CurrentBranch.case)
    /\ m_pc' = "done"
    /\ UNCHANGED <<m_cases, m_chain, m_subject, m_idx, walrusVars, extVars>>

\* No branch is left: the statement after the chain is reached.
FallThrough ==
    /\ m_pc = "eval"
    /\ m_idx > Len(m_chain)
    /\ m_out' = [Pending EXCEPT !.kind = "none"]
    /\ m_pc' = "done"
    /\ UNCHANGED <<m_cases, m_chain, m_subject, m_idx, m_tested, walrusVars, extVars>>

NextMatch ==
    \/ \E c \in CasePool : AddCase(c)
    \/ CompileMatch
    \/ \E s \in Subjects : CallWith(s)
    \/ BranchSkipped
    \/ BranchTaken
    \/ ArityErrorRaised
    \/ ConditionRaises
    \/ FallThrough

SpecMatch == InitMatch /\ [][NextMatch]_vars

(***************************************************************************)
(* Helpers of the properties of the match desugaring.                      *)
(***************************************************************************)
Done == m_pc = "done"

Compiled == m_pc \in {"ready", "eval", "done"}

\* The branch of case k was entered.
Entered(k) == m_out.kind \in {"body", "bind_error"} /\ m_out.case = k

\* The branches compiled for case k alone, with the "else" of a final
\* always-matching case.
BranchesOfCase(cases, k) ==
    IF k = Len(cases) /\ EndsWithElse(cases)
    THEN <<Branch(k, 1, "else", <<>>, CompilePattern(cases[k].pat, <<>>).binds, "", 0)>>
    ELSE CompileCase(cases[k], k)

RECURSIVE FirstVerdict(_, _)
\* The branches of one case evaluated in order: "T" when a body branch is
\* true, "F" when all are false, else the exception raised.
FirstVerdict(branches, s) ==
    IF branches = <<>> THEN "F"
    ELSE LET v == CondValue(Head(branches), s)
         IN  IF v = "F" THEN FirstVerdict(Tail(branches), s)
             ELSE IF v = "T" /\ Head(branches).kind = "raise" THEN "TypeError"
             ELSE v

\* The value of the condition (pattern and guard) of case k on subject s.
CaseValue(cases, k, s) == FirstVerdict(BranchesOfCase(cases, k), s)

\* The match statement has a wildcard or bare-capture case.
HasCatchAll(cases) == \E k \in 1..Len(cases) : cases[k].pat.k \in {"wild", "cap"}

(***************************************************************************)
(* C1: the chain tests the case conditions in source order; the body of    *)
(* the k-th case runs iff the conditions of all earlier cases are false    *)
(* and the condition (pattern and guard) of the k-th case is true; at most *)
(* one body runs (nothing is tested after the branch that was entered).    *)
(***************************************************************************)
C1_OrderPreserved ==
    /\ \A i \in 1..Len(m_tested) :
          /\ i = 1 => m_tested[i] = 1
          /\ i > 1 => m_tested[i] \in {m_tested[i - 1], m_tested[i - 1] + 1}
    /\ Done =>
          \A k \in 1..Len(m_cases) :
              /\ Entered(k) <=>
                    /\ \A j \in 1..(k - 1) : CaseValue(m_cases, j, m_subject) = "F"
                    /\ CaseValue(m_cases, k, m_subject) = "T"
              /\ Entered(k) => m_tested[Len(m_tested)] = k

\* A second case with a body runs after a first case whose guard is false.
C1_Witness ==
    /\ Done /\ Len(m_cases) = 2 /\ m_cases[1].guard.has
    /\ m_out.kind = "body" /\ m_out.case = 2 /\ m_tested = <<1, 2>>

(***************************************************************************)
(* C2: a match statement without a wildcard or bare-capture case compiles  *)
(* to a chain without an else branch, and for every subject that matches   *)
(* none of its cases the chain runs no body, binds no name and raises no   *)
(* error.                                                                  *)
(***************************************************************************)
C2_NoMatchFallsThrough ==
    (Compiled /\ ~HasCatchAll(m_cases)) =>
        /\ \A i \in 1..Len(m_chain) : m_chain[i].kind # "else"
        /\ (Done /\ \A i \in 1..Len(m_chain) : CondValue(m_chain[i], m_subject) # "T")
              => (m_out.kind = "none" /\ m_out.env = <<>>)

(***************************************************************************)
(* C3: every sequence pattern, also one of literals only, is compiled to   *)
(* a sequence-type test: a str, bytes or mapping subject selects no        *)
(* sequence branch, and a list and a tuple holding equal elements select   *)
(* the same branch.                                                        *)
(***************************************************************************)
RECURSIVE SelectedCase(_, _)
\* The case whose branch the chain enters for subject s (0: none).
SelectedCase(chain, s) ==
    IF chain = <<>> THEN 0
    ELSE LET v == CondValue(Head(chain), s)
         IN  IF v = "F" THEN SelectedCase(Tail(chain), s)
             ELSE IF v = "T" /\ Head(chain).kind # "raise" THEN Head(chain).case
             ELSE 0

\* The tuple with the items of a list, the list with the items of a tuple.
Twin(v) == IF v.t = "tuple" THEN ListV(v.items) ELSE TupleV(v.items)

C3_SequenceTypeTest ==
    Done =>
        /\ \A k \in 1..Len(m_cases) :
              (Entered(k) /\ m_cases[k].pat.k = "seq") => m_subject.t \in {"tuple", "list"}
        /\ m_subject.t \in {"tuple", "list"} =>
              SelectedCase(m_chain, Twin(m_subject)) = SelectedCase(m_chain, m_subject)

(***************************************************************************)
(* C4: the literal patterns True, False and None are compiled to an        *)
(* identity test and every other literal pattern to an equality test:      *)
(* subject 1 never selects case True, subject 0 never selects case False,  *)
(* and subject 0.0 selects an earlier case 0, not a later case 0.0.        *)
(***************************************************************************)
IsSingleton(v) == v.t \in {"bool", "none"}

C4_LiteralTests ==
    /\ Compiled =>
          \A i \in 1..Len(m_chain) :
              LET p == m_cases[m_chain[i].case].pat
              IN  (p.k = "lit" /\ m_chain[i].kind = "body") =>
                      m_chain[i].cond =
                          <<[op |-> IF IsSingleton(p.v) THEN "is" ELSE "eq",
                             path |-> <<>>, v |-> p.v]>>
    /\ Done =>
          \A k \in 1..Len(m_cases) :
              (Entered(k) /\ m_cases[k].pat.k = "lit") =>
                  LET v == m_cases[k].pat.v
                  IN  /\ IsSingleton(v) => (m_subject.t = v.t /\ m_subject = v)
                      /\ ~IsSingleton(v) => PyEq(m_subject, v)
    /\ (Done /\ Len(m_cases) = 2 /\ m_cases[1].pat = Lit(I0)
             /\ m_cases[2].pat = Lit(FloatV(0)) /\ m_subject = FloatV(0))
          => Entered(1)

\* Subject 1 passes over "case True" and selects the later "case 1".
C4_Witness ==
    /\ Done /\ Len(m_cases) = 2
    /\ m_cases[1].pat = Lit(TrueV) /\ m_cases[2].pat = Lit(IntV(1))
    /\ m_subject = IntV(1) /\ Entered(2)

(***************************************************************************)
(* C5: an OR pattern whose alternatives bind names becomes one branch per  *)
(* alternative, adjacent and in source order, each with the guard and the  *)
(* bindings of its own alternative; for any subject the branch taken is    *)
(* that of the first alternative whose pattern and guard hold.             *)
(***************************************************************************)
\* The positions in the chain of the branches of case k.
PositionsOfCase(chain, k) == { i \in 1..Len(chain) : chain[i].case = k }

\* Pattern and guard of alternative a of case cs hold on subject s.
AlternativeHolds(cs, a, s) ==
    LET r == CompilePattern(cs.pat.alts[a], <<>>)
    IN  EvalConj(r.terms \o GuardTerms(cs.guard, r.binds), s) = "T"

C5_OrExpansion ==
    Compiled =>
        \A k \in 1..Len(m_cases) :
            ExpandsOr(m_cases[k].pat) =>
                LET pos  == PositionsOfCase(m_chain, k)
                    n    == Len(m_cases[k].pat.alts)
                    lo   == CHOOSE i \in pos : \A j \in pos : i <= j
                    hold == { a \in 1..n : AlternativeHolds(m_cases[k], a, m_subject) }
                IN  /\ pos = lo..(lo + n - 1)
                    /\ \A a \in 1..n :
                          LET r == CompilePattern(m_cases[k].pat.alts[a], <<>>)
                              b == m_chain[lo + a - 1]
                          IN  /\ b.alt = a
                              /\ b.cond = r.terms \o GuardTerms(m_cases[k].guard, r.binds)
                              /\ b.binds = r.binds
                    /\ (Done /\ hold # {}
                             /\ \A j \in 1..(k - 1) : CaseValue(m_cases, j, m_subject) = "F")
                          => /\ Entered(k)
                             /\ m_out.alt = CHOOSE a \in hold : \A a2 \in hold : a <= a2

(***************************************************************************)
(* C6: every access of the subject in a compiled condition is preceded by  *)
(* the terms that make it valid, so evaluating a chain never raises        *)
(* IndexError, KeyError, TypeError or AttributeError from a structural     *)
(* access, also for a keyword class pattern on an instance that lacks the  *)
(* attribute.                                                              *)
(***************************************************************************)
AccessErrors == {"IndexError", "KeyError", "TypeError", "AttributeError"}

C6_GuardedAccess ==
    Done => ~(m_out.kind \in {"error", "bind_error"} /\ m_out.err \in AccessErrors)

(***************************************************************************)
(* C7: a positional class pattern that requests r sub-patterns, reached    *)
(* with an instance of a class whose field-name table has length a < r (or *)
(* is absent), raises a TypeError that names the class, the arity a that   *)
(* is available and the arity r that was requested; a subject that is not  *)
(* an instance of the class never raises.                                  *)
(***************************************************************************)
\* The number of positional sub-patterns the class accepts.
AvailableArity(cls) == IF HasMatchArgs(cls) THEN Len(MatchArgs(cls)) ELSE 0

C7_ArityError ==
    Done =>
        /\ \A k \in 1..Len(m_cases) :
              LET p == m_cases[k].pat
              IN  (/\ p.k = "cls" /\ Len(p.pos) > 0
                   /\ IsInstance(m_subject, p.cls)
                   /\ AvailableArity(p.cls) < Len(p.pos)
                   /\ \A j \in 1..(k - 1) : CaseValue(m_cases, j, m_subject) = "F")
                  => /\ m_out.kind = "raise" /\ m_out.case = k
                     /\ m_out.err = "TypeError"
                     /\ m_out.cls = p.cls
                     /\ m_out.avail = AvailableArity(p.cls)
                     /\ m_out.given = Len(p.pos)
        /\ m_out.kind = "raise" => IsInstance(m_subject, m_out.cls)

(***************************************************************************)
(* Part 2: the inline-assignment (walrus) rewriter.                        *)
(*                                                                         *)
(* Syntax trees.  A block is a sequence of items; an item is a compound    *)
(* statement (If, While) or a SimpleStatementLine holding small            *)
(* statements (Assign, Expr, assert, Break, Continue) joined by ";".       *)
(***************************************************************************)
Name(id)                   == [e |-> "Name", id |-> id]
Integer(n)                 == [e |-> "Integer", n |-> n]
Call(fn, args)             == [e |-> "Call", fn |-> fn, args |-> args]
NamedExpr(target, value)   == [e |-> "NamedExpr", target |-> target, value |-> value]
Comparison(left, right)    == [e |-> "Comparison", left |-> left, right |-> right]
BooleanOperation(left, op, right) ==
    [e |-> "BooleanOperation", op |-> op, left |-> left, right |-> right]
NotOperation(expression)   == [e |-> "Not", expression |-> expression]
\* A tuple; par is "[]" when it is written in square brackets, "" when bare.
Tuple(elements, par)       == [e |-> "Tuple", elements |-> elements, par |-> par]
\* One `for target in iter if ...` clause; inner_for_in is <<>> (None) or
\* holds the next clause.
CompFor(target, iter, ifs, inner_for_in) ==
    [target |-> target, iter |-> iter, ifs |-> ifs, inner_for_in |-> inner_for_in]
ListComp(elt, for_in)      == [e |-> "ListComp", elt |-> elt, for_in |-> for_in]
SetComp(elt, for_in)       == [e |-> "SetComp", elt |-> elt, for_in |-> for_in]
GeneratorExp(elt, for_in)  == [e |-> "GeneratorExp", elt |-> elt, for_in |-> for_in]
DictComp(key, value, for_in) ==
    [e |-> "DictComp", key |-> key, value |-> value, for_in |-> for_in]

If(test, body, orelse)     == [s |-> "If", test |-> test, body |-> body, orelse |-> orelse]
While(test, body, orelse)  == [s |-> "While", test |-> test, body |-> body, orelse |-> orelse]
Assign(target, value)      == [s |-> "Assign", target |-> target, value |-> value]
Expr(value)                == [s |-> "Expr", value |-> value]
AssertStatement(test)      == [s |-> "Assert", test |-> test]
Break                      == [s |-> "Break"]
Continue                   == [s |-> "Continue"]
SimpleStatementLine(body)  == [s |-> "Line", body |-> body]

RECURSIVE ForChildren(_)
\* The expressions of the for clauses of a comprehension in the order the
\* traversal visits them: target, iter, ifs, then the inner clause.
ForChildren(for_in) ==
    <<for_in.target, for_in.iter>> \o for_in.ifs
        \o (IF for_in.inner_for_in = <<>> THEN <<>> ELSE ForChildren(for_in.inner_for_in[1]))

\* The sub-expressions of an expression, left to right.
Children(e) ==
    IF e.e = "Call" THEN e.args
    ELSE IF e.e = "NamedExpr" THEN <<e.value>>
    ELSE IF e.e \in {"Comparison", "BooleanOperation"} THEN <<e.left, e.right>>
    ELSE IF e.e = "Not" THEN <<e.expression>>
    ELSE IF e.e = "Tuple" THEN e.elements
    ELSE IF e.e \in {"ListComp", "SetComp", "GeneratorExp"} THEN <<e.elt>> \o ForChildren(e.for_in)
    ELSE IF e.e = "DictComp" THEN <<e.key, e.value>> \o ForChildren(e.for_in)
    ELSE <<>>

\* The expressions for which the transformer has a visit_ method that opens
\* a list of assignments (there is none for a generator expression).
OpensScope(e) == e.e \in {"ListComp", "SetComp", "DictComp"}

RECURSIVE NamedExprs(_)
\* The inline assignments of an expression that are recorded on the list
\* open around it, in the order the traversal leaves them: children before
\* their parent, siblings left to right; those inside a comprehension that
\* opens its own list are recorded there.
NamedExprs(e) ==
    IF OpensScope(e) THEN <<>>
    ELSE ConcatAll([i \in 1..Len(Children(e)) |-> NamedExprs(Children(e)[i])])
             \o (IF e.e = "NamedExpr" THEN <<e>> ELSE <<>>)

\* The assignments on the list of a comprehension when the traversal
\* leaves it.
Recorded(comp) ==
    LET inner == ConcatAll([i \in 1..Len(Children(comp)) |-> NamedExprs(Children(comp)[i])])
    IN  [i \in 1..Len(inner) |-> Assign(inner[i].target, inner[i].value)]

ValueError == [e |-> "ValueError"]

\* _transform_list_comprehension
TransformListComprehension(node, assignments) ==
    IF node.for_in.inner_for_in # <<>> THEN ValueError
    ELSE LET var_names       == [i \in 1..Len(assignments) |-> Name(assignments[i].target)]
             var_values      == [i \in 1..Len(assignments) |-> assignments[i].value]
             original_target == node.for_in.target
             new_target      == Tuple(<<original_target>> \o var_names, "")
             new_iter        == GeneratorExp(Tuple(<<original_target>> \o var_values, "[]"),
                                             CompFor(original_target, node.for_in.iter,
                                                     <<>>, <<>>))
         IN  ListComp(node.elt, CompFor(new_target, new_iter, node.for_in.ifs, <<>>))

\* _transform_comprehension_with_walrus
TransformComprehensionWithWalrus(node, assignments) ==
    IF node.e = "ListComp" THEN TransformListComprehension(node, assignments)
    ELSE ValueError

RECURSIVE Updated(_)
RECURSIVE UpdatedFor(_)
RECURSIVE Rebuilt(_)
\* The for clauses with their expressions rebuilt.
UpdatedFor(for_in) ==
    CompFor(Updated(for_in.target), Updated(for_in.iter),
            [i \in 1..Len(for_in.ifs) |-> Updated(for_in.ifs[i])],
            IF for_in.inner_for_in = <<>> THEN <<>>
            ELSE <<UpdatedFor(for_in.inner_for_in[1])>>)

\* The updated_node a leave_ method is given: the node with its children
\* rebuilt.
Rebuilt(e) ==
    IF e.e = "Call" THEN Call(e.fn, [i \in 1..Len(e.args) |-> Updated(e.args[i])])
    ELSE IF e.e = "Comparison" THEN Comparison(Updated(e.left), Updated(e.right))
    ELSE IF e.e = "BooleanOperation"
    THEN BooleanOperation(Updated(e.left), e.op, Updated(e.right))
    ELSE IF e.e = "Not" THEN NotOperation(Updated(e.expression))
    ELSE IF e.e = "Tuple"
    THEN Tuple([i \in 1..Len(e.elements) |-> Updated(e.elements[i])], e.par)
    ELSE IF e.e \in {"ListComp", "SetComp", "GeneratorExp"}
    THEN [e EXCEPT !.elt = Updated(@), !.for_in = UpdatedFor(@)]
    ELSE IF e.e = "DictComp"
    THEN [e EXCEPT !.key = Updated(@), !.value = Updated(@), !.for_in = UpdatedFor(@)]
    ELSE e

\* The expression the traversal rebuilds: every inline assignment replaced
\* by what leave_NamedExpr returns, the bare name of its target, and every
\* comprehension by what its leave_ method returns.
Updated(e) ==
    IF e.e = "NamedExpr" THEN Name(e.target)
    ELSE IF OpensScope(e) /\ Recorded(e) # <<>>
    THEN TransformComprehensionWithWalrus(Rebuilt(e), Recorded(e))
    ELSE Rebuilt(e)

(***************************************************************************)
(* The traversal of a module: the calls the tree library makes on the      *)
(* transformer, depth first, with the node each call is given.             *)
(***************************************************************************)
Event(ev, node) == [ev |-> ev, node |-> node]

NoNode == [s |-> "None"]

RECURSIVE ExprEvents(_)
\* The calls for an expression: leave_NamedExpr for every inline
\* assignment, children first; visit_ and leave_ around a list, set or dict
\* comprehension.
ExprEvents(e) ==
    LET inner == ConcatAll([i \in 1..Len(Children(e)) |-> ExprEvents(Children(e)[i])])
    IN  IF e.e = "NamedExpr" THEN inner \o <<Event("leave_NamedExpr", e)>>
        ELSE IF e.e = "ListComp"
        THEN <<Event("visit_ListComp", e)>> \o inner \o <<Event("leave_ListComp", e)>>
        ELSE IF e.e = "SetComp"
        THEN <<Event("visit_SetComp", e)>> \o inner \o <<Event("leave_SetComp", e)>>
        ELSE IF e.e = "DictComp"
        THEN <<Event("visit_DictComp", e)>> \o inner \o <<Event("leave_DictComp", e)>>
        ELSE inner

\* The calls for one small statement.
SmallEvents(st) ==
    IF st.s = "Assign"
    THEN <<Event("visit_Assign", st)>> \o ExprEvents(st.value) \o <<Event("leave_Assign", st)>>
    ELSE IF st.s = "Expr"
    THEN <<Event("visit_Expr", st)>> \o ExprEvents(st.value) \o <<Event("leave_Expr", st)>>
    ELSE IF st.s = "Assert"
    THEN ExprEvents(st.test) \o <<Event("leave_other", st)>>
    ELSE <<Event("leave_other", st)>>

RECURSIVE BlockEvents(_)
RECURSIVE ItemEvents(_)
\* The calls for one item of a block: for a compound statement its test,
\* then its body, then its else block.
ItemEvents(item) ==
    IF item.s = "Line"
    THEN <<Event("visit_line", NoNode)>>
             \o ConcatAll([i \in 1..Len(item.body) |-> SmallEvents(item.body[i])])
             \o <<Event("leave_line", NoNode)>>
    ELSE <<Event(IF item.s = "If" THEN "visit_If" ELSE "visit_While", item)>>
             \o ExprEvents(item.test)
             \o <<Event("visit_block", NoNode)>> \o BlockEvents(item.body)
             \o <<Event("visit_block", NoNode)>> \o BlockEvents(item.orelse)
             \o <<Event(IF item.s = "If" THEN "leave_If" ELSE "leave_While", item)>>

BlockEvents(block) == ConcatAll([i \in 1..Len(block) |-> ItemEvents(block[i])])

ModuleEvents(module) == BlockEvents(module) \o <<Event("leave_Module", NoNode)>>

(***************************************************************************)
(* WalrusOperatorTransformer: one action per visit_/leave_ method, and one *)
(* per step by which the tree library rebuilds the statement lists.        *)
(***************************************************************************)
NextEvent == Head(w_events)

Walking(ev) == w_pc = "walk" /\ w_events # <<>> /\ NextEvent.ev = ev

Top(stack) == stack[Len(stack)]

Pop(stack) == SubSeq(stack, 1, Len(stack) - 1)

\* The statement lists with the items appended to the innermost one.
Emit(frames, items) == [frames EXCEPT ![Len(frames)] = @ \o items]

\* self.assignments_stack.append([])
PushScope(stack) == Append(stack, <<>>)

\* An assignment recorded on the outermost open list.
RecordOutermost(stack, a) == [stack EXCEPT ![1] = Append(@, a)]

\* self.assignments_stack[-1].append(assign_stmt)
Record(stack, a) == [stack EXCEPT ![Len(stack)] = Append(@, a)]

visit_If ==
    /\ Walking("visit_If")
    /\ assignments_stack' = PushScope(assignments_stack)
    /\ w_events' = Tail(w_events)
    /\ UNCHANGED <<w_pc, w_src, w_frames, w_out, w_run, matchVars, extVars>>

visit_While ==
    /\ Walking("visit_While")
    /\ assignments_stack' = PushScope(assignments_stack)
    /\ w_events' = Tail(w_events)
    /\ UNCHANGED <<w_pc, w_src, w_frames, w_out, w_run, matchVars, extVars>>

visit_Assign ==
    /\ Walking("visit_Assign")
    /\ assignments_stack' = PushScope(assignments_stack)
    /\ w_events' = Tail(w_events)
    /\ UNCHANGED <<w_pc, w_src, w_frames, w_out, w_run, matchVars, extVars>>

visit_Expr ==
    /\ Walking("visit_Expr")
    /\ assignments_stack' = PushScope(assignments_stack)
    /\ w_events' = Tail(w_events)
    /\ UNCHANGED <<w_pc, w_src, w_frames, w_out, w_run, matchVars, extVars>>

visit_ListComp ==
    /\ Walking("visit_ListComp")
    /\ assignments_stack' = PushScope(assignments_stack)
    /\ w_events' = Tail(w_events)
    /\ UNCHANGED <<w_pc, w_src, w_frames, w_out, w_run, matchVars, extVars>>

visit_SetComp ==
    /\ Walking("visit_SetComp")
    /\ assignments_stack' = PushScope(assignments_stack)
    /\ w_events' = Tail(w_events)
    /\ UNCHANGED <<w_pc, w_src, w_frames, w_out, w_run, matchVars, extVars>>

visit_DictComp ==
    /\ Walking("visit_DictComp")
    /\ assignments_stack' = PushScope(assignments_stack)
    /\ w_events' = Tail(w_events)
    /\ UNCHANGED <<w_pc, w_src, w_frames, w_out, w_run, matchVars, extVars>>

\* The tree library enters a block or a statement line: a new list of
\* rebuilt statements is begun.
VisitBody ==
    /\ w_pc = "walk" /\ w_events # <<>>
    /\ NextEvent.ev \in {"visit_block", "visit_line"}
    /\ w_frames' = Append(w_frames, <<>>)
    /\ w_events' = Tail(w_events)
    /\ UNCHANGED <<w_pc, w_src, assignments_stack, w_out, w_run, matchVars, extVars>>

\* leave_NamedExpr: the assignment is built from the target and the value
\* of the node as it was before the traversal (its first parameter), and
\* the bare name is returned in its place.
leave_NamedExpr ==
    /\ Walking("leave_NamedExpr")
    /\ IF assignments_stack = <<>>
       THEN /\ w_pc' = "error"
            /\ UNCHANGED <<assignments_stack, w_events>>
       ELSE /\ assignments_stack' =
                   Record(assignments_stack, Assign(NextEvent.node.target, NextEvent.node.value))
            /\ w_events' = Tail(w_events)
            /\ UNCHANGED w_pc
    /\ UNCHANGED <<w_src, w_frames, w_out, w_run, matchVars, extVars>>

\* The items leave_If returns for the rebuilt if statement.
IfResult(assignments, updated_node) ==
    IF assignments = <<>> THEN <<updated_node>>
    ELSE <<SimpleStatementLine(assignments), updated_node>>

leave_If ==
    /\ Walking("leave_If")
    /\ LET body    == w_frames[Len(w_frames) - 1]
           orelse  == Top(w_frames)
           updated == If(Updated(NextEvent.node.test), body, orelse)
       IN  w_frames' = Emit(Pop(Pop(w_frames)), IfResult(Top(assignments_stack), updated))
    /\ assignments_stack' = Pop(assignments_stack)
    /\ w_events' = Tail(w_events)
    /\ UNCHANGED <<w_pc, w_src, w_out, w_run, matchVars, extVars>>

\* _transform_while_with_walrus with the early exit placed before the
\* assignments.
TransformWhileExitFirst(node, assignments) ==
    LET assignment_line == SimpleStatementLine(assignments)
        break_condition == If(NotOperation(node.test),
                              <<SimpleStatementLine(<<Break>>)>>, <<>>)
        new_body        == <<break_condition, assignment_line>> \o node.body
    IN  While(Name("True"), new_body, node.orelse)

\* _transform_while_with_walrus with the assignments emitted last first.
TransformWhileReversed(node, assignments) ==
    LET assignment_line == SimpleStatementLine([i \in 1..Len(assignments) |->
                                                   assignments[Len(assignments) + 1 - i]])
        break_condition == If(NotOperation(node.test),
                              <<SimpleStatementLine(<<Break>>)>>, <<>>)
        new_body        == <<assignment_line, break_condition>> \o node.body
    IN  While(Name("True"), new_body, node.orelse)

\* _transform_while_with_walrus
TransformWhileWithWalrus(node, assignments) ==
    LET assignment_line == SimpleStatementLine(assignments)
        break_condition == If(NotOperation(node.test),
                              <<SimpleStatementLine(<<Break>>)>>, <<>>)
        new_body        == <<assignment_line, break_condition>> \o node.body
    IN  While(Name("True"), new_body, node.orelse)

leave_While ==
    /\ Walking("leave_While")
    /\ LET body    == w_frames[Len(w_frames) - 1]
           orelse  == Top(w_frames)
           updated == While(Updated(NextEvent.node.test), body, orelse)
       IN  w_frames' = Emit(Pop(Pop(w_frames)),
                            IF Top(assignments_stack) = <<>> THEN <<updated>>
                            ELSE <<TransformWhileWithWalrus(updated, Top(assignments_stack))>>)
    /\ assignments_stack' = Pop(assignments_stack)
    /\ w_events' = Tail(w_events)
    /\ UNCHANGED <<w_pc, w_src, w_out, w_run, matchVars, extVars>>

leave_Assign ==
    /\ Walking("leave_Assign")
    /\ w_frames' = Emit(w_frames,
                        Top(assignments_stack)
                            \o <<Assign(NextEvent.node.target, Updated(NextEvent.node.value))>>)
    /\ assignments_stack' = Pop(assignments_stack)
    /\ w_events' = Tail(w_events)
    /\ UNCHANGED <<w_pc, w_src, w_out, w_run, matchVars, extVars>>

leave_Expr ==
    /\ Walking("leave_Expr")
    /\ w_frames' = Emit(w_frames,
                        Top(assignments_stack) \o <<Expr(Updated(NextEvent.node.value))>>)
    /\ assignments_stack' = Pop(assignments_stack)
    /\ w_events' = Tail(w_events)
    /\ UNCHANGED <<w_pc, w_src, w_out, w_run, matchVars, extVars>>

\* A small statement the transformer has no method for is rebuilt from its
\* rebuilt expression.
LeaveOther ==
    /\ Walking("leave_other")
    /\ w_frames' = Emit(w_frames,
                        <<IF NextEvent.node.s = "Assert"
                          THEN AssertStatement(Updated(NextEvent.node.test))
                          ELSE NextEvent.node>>)
    /\ w_events' = Tail(w_events)
    /\ UNCHANGED <<w_pc, w_src, assignments_stack, w_out, w_run, matchVars, extVars>>

\* The statement line is rebuilt from its small statements.
LeaveLine ==
    /\ Walking("leave_line")
    /\ w_frames' = Emit(Pop(w_frames), <<SimpleStatementLine(Top(w_frames))>>)
    /\ w_events' = Tail(w_events)
    /\ UNCHANGED <<w_pc, w_src, assignments_stack, w_out, w_run, matchVars, extVars>>

\* leave_ListComp, leave_SetComp and leave_DictComp with the list of the
\* comprehension left on the stack.
LeaveComprehensionKeep ==
    LET assignments == Top(assignments_stack)
        raised      == /\ assignments # <<>>
                       /\ TransformComprehensionWithWalrus(Rebuilt(NextEvent.node),
                                                           assignments) = ValueError
    IN  /\ assignments_stack' = assignments_stack
        /\ w_pc' = IF raised THEN "error" ELSE w_pc
        /\ w_events' = IF raised THEN w_events ELSE Tail(w_events)
        /\ UNCHANGED <<w_src, w_frames, w_out, w_run, matchVars, extVars>>

\* What leave_ListComp, leave_SetComp and leave_DictComp do: the list of
\* the comprehension is popped; when it holds assignments the comprehension
\* is transformed, and a ValueError ends the traversal.
LeaveComprehension ==
    LET assignments == Top(assignments_stack)
        raised      == /\ assignments # <<>>
                       /\ TransformComprehensionWithWalrus(Rebuilt(NextEvent.node),
                                                           assignments) = ValueError
    IN  /\ assignments_stack' = Pop(assignments_stack)
        /\ w_pc' = IF raised THEN "error" ELSE w_pc
        /\ w_events' = IF raised THEN w_events ELSE Tail(w_events)
        /\ UNCHANGED <<w_src, w_frames, w_out, w_run, matchVars, extVars>>

leave_ListComp == Walking("leave_ListComp") /\ LeaveComprehension

leave_SetComp == Walking("leave_SetComp") /\ LeaveComprehension

leave_DictComp == Walking("leave_DictComp") /\ LeaveComprehension

\* convert_walrus_operator returns the rebuilt module.
LeaveModule ==
    /\ Walking("leave_Module")
    /\ w_out' = w_frames[1]
    /\ w_pc' = "done"
    /\ w_events' = Tail(w_events)
    /\ UNCHANGED <<w_src, assignments_stack, w_frames, w_run, matchVars, extVars>>

(***************************************************************************)
(* Running a program.  Values are integers (0 is false); f() returns the   *)
(* next value of a stream (0 once the stream is used up); g() returns a    *)
(* value that is the same all through a run (twice the flag); every call   *)
(* is recorded, in order, in the trace.  With an argument f and g are pure: *)
(* f(v) is v + 1 and g(v) is 2 * v.                                        *)
(***************************************************************************)
Lookup(env, id) ==
    IF id = "True" THEN 1 ELSE IF id \in DOMAIN env THEN env[id] ELSE 0

SetVar(env, id, v) == [n \in DOMAIN env \cup {id} |-> IF n = id THEN v ELSE env[n]]

\* The names a for clause binds.
TargetNames(target) ==
    IF target.e = "Name" THEN {target.id}
    ELSE { target.elements[i].id : i \in 1..Len(target.elements) }

\* The target of a for clause bound to one value of the iterable (a tuple
\* target is unpacked).
BindTarget(env, target, value) ==
    IF target.e = "Name" THEN SetVar(env, target.id, value)
    ELSE [n \in DOMAIN env \cup TargetNames(target) |->
             IF n \in TargetNames(target)
             THEN value[CHOOSE i \in 1..Len(target.elements) : target.elements[i].id = n]
             ELSE env[n]]

\* The names of the enclosing scope after a comprehension: the targets of
\* its for clause are local to it, names bound by inline assignments stay.
LeaveScope(outer, inner, locals) ==
    [n \in (DOMAIN inner \ locals) \cup (DOMAIN outer \cap locals) |->
        IF n \in locals THEN outer[n] ELSE inner[n]]

RECURSIVE Eval(_, _)
RECURSIVE EvalTuple(_, _, _)
RECURSIVE EvalFilter(_, _)
RECURSIVE EvalElements(_, _, _, _)
\* The values of the elements of a tuple, left to right.
EvalTuple(elements, st, acc) ==
    IF elements = <<>> THEN [v |-> acc, st |-> st]
    ELSE LET r == Eval(Head(elements), st)
         IN  EvalTuple(Tail(elements), r.st, Append(acc, r.v))

\* The conditions of a for clause: 1 when all are true; evaluation stops
\* at the first false one.
EvalFilter(ifs, st) ==
    IF ifs = <<>> THEN [v |-> 1, st |-> st]
    ELSE LET r == Eval(Head(ifs), st)
         IN  IF r.v = 0 THEN [v |-> 0, st |-> r.st] ELSE EvalFilter(Tail(ifs), r.st)

\* A comprehension with one for clause over the values of its iterable:
\* per value the target is bound, the conditions are evaluated and, when
\* they hold, the element is evaluated.
EvalElements(comp, values, st, acc) ==
    IF values = <<>> THEN [v |-> acc, st |-> st]
    ELSE LET bound == [st EXCEPT !.env = BindTarget(@, comp.for_in.target, Head(values))]
             t     == EvalFilter(comp.for_in.ifs, bound)
         IN  IF t.v = 0 THEN EvalElements(comp, Tail(values), t.st, acc)
             ELSE LET x == Eval(comp.elt, t.st)
                  IN  EvalElements(comp, Tail(values), x.st, Append(acc, x.v))

\* The value of an expression and the state its evaluation leaves.  Reading
\* an unbound name is recorded as a NameError.
Eval(e, st) ==
    IF e.e = "Name"
    THEN [v  |-> Lookup(st.env, e.id),
          st |-> IF e.id = "True" \/ e.id \in DOMAIN st.env THEN st
                 ELSE [st EXCEPT !.trace = Append(@, <<"NameError", 0>>)]]
    ELSE IF e.e = "Integer" THEN [v |-> e.n, st |-> st]
    ELSE IF e.e = "Tuple" THEN EvalTuple(e.elements, st, <<>>)
    ELSE IF e.e \in {"ListComp", "GeneratorExp"}
    THEN LET it == Eval(e.for_in.iter, st)
             r  == EvalElements(e, it.v, it.st, <<>>)
         IN  [v  |-> r.v,
              st |-> [r.st EXCEPT !.env = LeaveScope(it.st.env, @,
                                                     TargetNames(e.for_in.target))]]
    ELSE IF e.e = "Call" /\ e.fn \in {"f", "g"} /\ e.args # <<>>
    THEN LET a == Eval(e.args[1], st)
             v == IF e.fn = "f" THEN a.v + 1 ELSE 2 * a.v
         IN  [v |-> v, st |-> [a.st EXCEPT !.trace = Append(@, <<e.fn, v>>)]]
    ELSE IF e.e = "Call"
    THEN IF e.fn = "f"
         THEN LET v == IF st.stream = <<>> THEN 0 ELSE Head(st.stream)
              IN  [v  |-> v,
                   st |-> [st EXCEPT !.stream = IF @ = <<>> THEN <<>> ELSE Tail(@),
                                     !.trace  = Append(@, <<"f", v>>)]]
         ELSE IF e.fn = "g"
         THEN LET v == 2 * Lookup(st.env, "flag")
              IN  [v |-> v, st |-> [st EXCEPT !.trace = Append(@, <<"g", v>>)]]
         ELSE IF e.args = <<>>
         THEN [v |-> 0, st |-> [st EXCEPT !.trace = Append(@, <<e.fn, 0>>)]]
         ELSE LET a == Eval(e.args[1], st)
              IN  [v |-> 0, st |-> [a.st EXCEPT !.trace = Append(@, <<e.fn, a.v>>)]]
    ELSE IF e.e = "NamedExpr"
    THEN LET r == Eval(e.value, st)
         IN  [v |-> r.v, st |-> [r.st EXCEPT !.env = SetVar(@, e.target, r.v)]]
    ELSE IF e.e = "Comparison"
    THEN LET l == Eval(e.left, st)
             r == Eval(e.right, l.st)
         IN  [v |-> IF l.v > r.v THEN 1 ELSE 0, st |-> r.st]
    ELSE IF e.e = "BooleanOperation"
    THEN LET l == Eval(e.left, st)
         IN  IF (e.op = "and") = (l.v = 0) THEN l ELSE Eval(e.right, l.st)
    ELSE LET r == Eval(e.expression, st)
         IN  [v |-> IF r.v = 0 THEN 1 ELSE 0, st |-> r.st]

Outcome(st, ctl) == [st |-> st, ctl |-> ctl]

RECURSIVE ExecBlock(_, _, _)
RECURSIVE ExecItem(_, _, _)
RECURSIVE ExecWhile(_, _, _)
\* The statements of a block in order, until one of them breaks,
\* continues or raises.
ExecBlock(block, st, fuel) ==
    IF block = <<>> THEN Outcome(st, "next")
    ELSE LET r == ExecItem(Head(block), st, fuel)
         IN  IF r.ctl = "next" THEN ExecBlock(Tail(block), r.st, fuel) ELSE r

ExecItem(item, st, fuel) ==
    IF item.s = "Line" THEN ExecBlock(item.body, st, fuel)
    ELSE IF item.s = "Assign"
    THEN LET r == Eval(item.value, st)
         IN  Outcome([r.st EXCEPT !.env = SetVar(@, item.target, r.v)], "next")
    ELSE IF item.s = "Expr" THEN Outcome(Eval(item.value, st).st, "next")
    ELSE IF item.s = "Assert"
    THEN LET t == Eval(item.test, st)
         IN  Outcome(t.st, IF t.v # 0 THEN "next" ELSE "raise")
    ELSE IF item.s = "Break" THEN Outcome(st, "break")
    ELSE IF item.s = "Continue" THEN Outcome(st, "continue")
    ELSE IF item.s = "If"
    THEN LET t == Eval(item.test, st)
         IN  ExecBlock(IF t.v # 0 THEN item.body ELSE item.orelse, t.st, fuel)
    ELSE ExecWhile(item, st, fuel)

\* A while loop: the test is evaluated before every execution of the body,
\* also after a continue; the else block runs when the test is false.
ExecWhile(loop, st, fuel) ==
    IF fuel = 0 THEN Outcome(st, "fuel")
    ELSE LET t == Eval(loop.test, st)
         IN  IF t.v = 0 THEN ExecBlock(loop.orelse, t.st, fuel)
             ELSE LET b == ExecBlock(loop.body, t.st, fuel)
                  IN  IF b.ctl = "break" THEN Outcome(b.st, "next")
                      ELSE IF b.ctl \in {"raise", "fuel"} THEN b
                      ELSE ExecWhile(loop, b.st, fuel - 1)

\* The calls a module makes when run on a stream, and how the run ended.
RunModule(module, stream, flag, fuel) ==
    LET r == ExecBlock(module,
                       [env |-> [n \in {"flag"} |-> flag], stream |-> stream, trace |-> <<>>],
                       fuel)
    IN  Append(r.st.trace, <<r.ctl, 0>>)

(***************************************************************************)
(* The modules handed to the rewriter.                                     *)
(***************************************************************************)
F == Call("f", <<>>)
G == Call("g", <<>>)

\* The names bound by the tests of the if statements at nesting depth d.
VarA(d) == <<"a", "c", "e", "h">>[d]
VarB(d) == <<"b", "d", "g", "k">>[d]

IfTests(d) ==
    { Comparison(NamedExpr(VarA(d), F), Integer(1)),
      BooleanOperation(Comparison(NamedExpr(VarA(d), F), Integer(1)), "or",
                       Comparison(NamedExpr(VarB(d), G), Integer(1))),
      Comparison(NamedExpr(VarA(d), Comparison(NamedExpr(VarB(d), F), Integer(1))),
                 Integer(0)),
      Comparison(Name("flag"), Integer(0)) }

Process(id) == SimpleStatementLine(<<Expr(Call("process", <<Name(id)>>))>>)

SimpleLines ==
    { Process("a"),
      SimpleStatementLine(<<Assign("y", NamedExpr("z", F))>>),
      SimpleStatementLine(<<Assign("y", NamedExpr("z", Comparison(NamedExpr("u", F),
                                                                  Integer(1))))>>),
      SimpleStatementLine(<<Expr(Call("process", <<NamedExpr("z", F)>>))>>),
      SimpleStatementLine(<<AssertStatement(NamedExpr("z", F))>>) }

RECURSIVE Items(_)
\* The statements nested at most d deep.
Items(d) ==
    IF d = 0 THEN SimpleLines
    ELSE Items(d - 1)
           \cup { If(t, <<b>>, <<>>) : t \in IfTests(d), b \in Items(d - 1) }
           \cup { If(Comparison(NamedExpr(VarA(d), F), Integer(1)), <<Process("a")>>, <<b>>) :
                      b \in Items(d - 1) }
           \cup { While(Name("flag"), <<b>>, <<>>) : b \in Items(d - 1) }

LoopTests ==
    { NamedExpr("x", F),
      Comparison(NamedExpr("x", F), Integer(1)),
      BooleanOperation(NamedExpr("x", F), "and", Name("flag")),
      BooleanOperation(Name("flag"), "and", NamedExpr("x", F)) }

BodyBegins == SimpleStatementLine(<<Expr(Call("body", <<Name("x")>>))>>)

LoopBodies ==
    { <<BodyBegins, Process("x")>>,
      <<BodyBegins,
        If(Comparison(Name("x"), Integer(1)), <<SimpleStatementLine(<<Continue>>)>>, <<>>),
        Process("x")>>,
      <<BodyBegins,
        If(Comparison(Name("x"), Integer(1)), <<SimpleStatementLine(<<Break>>)>>, <<>>),
        Process("x")>> }

LoopElses == { <<>>, <<SimpleStatementLine(<<Expr(Call("done", <<>>))>>)>> }

\* The modules that consist of one while loop with an inline assignment in
\* its test.
LoopModules ==
    { <<While(t, b, e)>> : t \in LoopTests, b \in LoopBodies, e \in LoopElses }

\* Tests that combine two inline assignments with and/or, as
\* `(chunk := file.read(8192)) and (alive := random.random()) > 2`.
MultiLoopTests ==
    { BooleanOperation(NamedExpr("x", F), op, Comparison(NamedExpr("w", G), Integer(1))) :
          op \in {"and", "or"} }

MultiLoopModules ==
    { <<While(t, b, <<>>)>> : t \in MultiLoopTests, b \in LoopBodies }

\* The filters of the comprehensions: one inline assignment; two joined by
\* and/or, the second computed from the element or from the name the first
\* binds; none.
CompFilters ==
    LET first == Comparison(NamedExpr("y", Call("f", <<Name("x")>>)), Integer(1))
    IN  { first, Comparison(Name("x"), Integer(0)) }
          \cup { BooleanOperation(first, op,
                                  Comparison(NamedExpr("z", Call("g", <<Name(a)>>)),
                                             Integer(1))) :
                     op \in {"and", "or"}, a \in {"x", "y"} }

\* One for clause, and two for clauses with the filter on the second.
ForClauses(test) ==
    { CompFor(Name("x"), Name("data"), <<test>>, <<>>),
      CompFor(Name("x"), Name("data"), <<>>,
              <<CompFor(Name("u"), Name("data"), <<test>>, <<>>)>>) }

Comprehensions ==
    UNION { { ListComp(elt, c), SetComp(elt, c), GeneratorExp(elt, c),
              DictComp(Name("x"), elt, c) } :
                elt \in {Name("x"), Name("y"), Name("z")},
                c \in UNION { ForClauses(t) : t \in CompFilters } }

\* out = <comprehension>
CompModules == { <<SimpleStatementLine(<<Assign("out", c)>>)>> : c \in Comprehensions }

Modules ==
    { <<item>> : item \in Items(MaxDepth) } \cup LoopModules \cup MultiLoopModules
        \cup CompModules

StreamValues == {0, 1, 2}

Streams == UNION { [1..n -> StreamValues] : n \in 0..MaxStream }

\* Enough iterations for a loop that reads the stream to its end.
LoopFuel == MaxStream + 2

(***************************************************************************)
(* The specification of the rewriter.                                      *)
(***************************************************************************)
\* convert_walrus_operator(module): module.visit(WalrusOperatorTransformer())
InitWalrus ==
    /\ MatchIdle /\ TypingIdle /\ PureIdle /\ HookIdle
    /\ w_pc = "walk"
    /\ w_src \in Modules
    /\ w_events = ModuleEvents(w_src)
    /\ assignments_stack = <<>>
    /\ w_frames = << <<>> >>
    /\ w_out = <<>>
    /\ w_run = NotRun

\* The loop of the module and the loop of the rewritten module are run on
\* the same stream of values.
RunLoop(stream, flag) ==
    /\ w_pc = "done"
    /\ w_src \in LoopModules \cup MultiLoopModules
    /\ w_run' = [ran |-> TRUE, stream |-> stream, flag |-> flag,
                 before |-> RunModule(w_src, stream, flag, LoopFuel),
                 after  |-> RunModule(w_out, stream, flag, LoopFuel)]
    /\ w_pc' = "ran"
    /\ UNCHANGED <<w_src, w_events, assignments_stack, w_frames, w_out, matchVars, extVars>>

\* What a module of one assignment to `out` yields when run on an iterable:
\* the value of out, or the NameError it raises.
CompResult(module, data) ==
    LET r == ExecBlock(module,
                       [env |-> [n \in {"data"} |-> data], stream |-> <<>>, trace |-> <<>>],
                       LoopFuel)
    IN  IF \E i \in 1..Len(r.st.trace) : r.st.trace[i][1] = "NameError"
        THEN [raised |-> TRUE, out |-> <<>>]
        ELSE [raised |-> FALSE, out |-> r.st.env["out"]]

\* A list comprehension with one for clause and the rewritten one are run
\* on the same iterable.
RunComp(data) ==
    /\ w_pc = "done"
    /\ w_src \in CompModules
    /\ w_src[1].body[1].value.e = "ListComp"
    /\ w_src[1].body[1].value.for_in.inner_for_in = <<>>
    /\ w_run' = [ran |-> TRUE, stream |-> data, flag |-> 0,
                 before |-> CompResult(w_src, data),
                 after  |-> CompResult(w_out, data)]
    /\ w_pc' = "ran"
    /\ UNCHANGED <<w_src, w_events, assignments_stack, w_frames, w_out, matchVars, extVars>>

NextWalrus ==
    \/ visit_If
    \/ visit_While
    \/ visit_Assign
    \/ visit_Expr
    \/ VisitBody
    \/ leave_NamedExpr
    \/ leave_If
    \/ leave_While
    \/ leave_Assign
    \/ leave_Expr
    \/ visit_ListComp
    \/ visit_SetComp
    \/ visit_DictComp
    \/ leave_ListComp
    \/ leave_SetComp
    \/ leave_DictComp
    \/ LeaveOther
    \/ LeaveLine
    \/ LeaveModule
    \/ \E stream \in Streams, flag \in {0, 1} : RunLoop(stream, flag)
    \/ \E data \in Streams : RunComp(data)

SpecWalrus == InitWalrus /\ [][NextWalrus]_vars

(***************************************************************************)
(* Helpers of the properties of the walrus rewriter.                       *)
(***************************************************************************)
Rewritten == w_pc \in {"done", "ran"}

\* The expression a small statement holds.
ExprOf(st) ==
    IF st.s \in {"Assign", "Expr"} THEN st.value
    ELSE IF st.s = "Assert" THEN st.test
    ELSE Integer(0)

RECURSIVE StrayIn(_)
\* Some inline assignment of the block lies in a loop test or in a small
\* statement that is neither an assignment nor an expression statement.
StrayIn(block) ==
    \E i \in 1..Len(block) :
        LET item == block[i]
        IN  IF item.s = "Line"
            THEN \E j \in 1..Len(item.body) :
                     item.body[j].s = "Assert" /\ NamedExprs(item.body[j].test) # <<>>
            ELSE \/ item.s = "While" /\ NamedExprs(item.test) # <<>>
                 \/ StrayIn(item.body)
                 \/ StrayIn(item.orelse)

\* The assignments hoisted for the inline assignments of an expression.
Hoisted(e) ==
    [i \in 1..Len(NamedExprs(e)) |->
        Assign(NamedExprs(e)[i].target, Updated(NamedExprs(e)[i].value))]

\* A small statement with its inline assignments hoisted in front of it.
ExpectedSmall(st) ==
    IF st.s = "Assign" THEN Hoisted(st.value) \o <<Assign(st.target, Updated(st.value))>>
    ELSE IF st.s = "Expr" THEN Hoisted(st.value) \o <<Expr(Updated(st.value))>>
    ELSE <<st>>

RECURSIVE ExpectedBlock(_)
RECURSIVE ExpectedItem(_)
ExpectedItem(item) ==
    IF item.s = "Line"
    THEN <<SimpleStatementLine(
               ConcatAll([j \in 1..Len(item.body) |-> ExpectedSmall(item.body[j])]))>>
    ELSE IF item.s = "If"
    THEN (IF NamedExprs(item.test) = <<>> THEN <<>>
          ELSE <<SimpleStatementLine(Hoisted(item.test))>>)
             \o <<If(Updated(item.test), ExpectedBlock(item.body), ExpectedBlock(item.orelse))>>
    ELSE <<While(item.test, ExpectedBlock(item.body), ExpectedBlock(item.orelse))>>

ExpectedBlock(block) == ConcatAll([i \in 1..Len(block) |-> ExpectedItem(block[i])])

(***************************************************************************)
(* C8: for an if test, a plain assignment or an expression statement with  *)
(* k >= 1 inline assignments the rewrite emits exactly k assignment        *)
(* statements immediately before the statement, in the order of the        *)
(* inline assignments (on one line for an if), every inline occurrence is  *)
(* replaced by the bare name of its target, and nothing else changes.      *)
(***************************************************************************)
C8_HoistedInOrder ==
    (w_pc = "done" /\ ~StrayIn(w_src)) => w_out = ExpectedBlock(w_src)

(***************************************************************************)
(* C9: with nested recognized contexts every inline assignment is hoisted  *)
(* to immediately before its own innermost enclosing context, in the body  *)
(* at that nesting level; no inner assignment is moved in front of an      *)
(* outer context.                                                          *)
(***************************************************************************)
RECURSIVE SourcePlaces(_, _)
\* For every inline assignment of a recognized context: its target, the
\* nesting depth of the context, and the rebuilt test or statement it
\* belongs to.
SourcePlaces(block, d) ==
    UNION { LET item == block[i]
            IN  IF item.s = "Line"
                THEN UNION { { <<NamedExprs(ExprOf(item.body[j]))[n].target, d,
                                 Updated(ExprOf(item.body[j]))>> :
                                   n \in 1..Len(NamedExprs(ExprOf(item.body[j]))) } :
                             j \in 1..Len(item.body) }
                ELSE { <<NamedExprs(item.test)[n].target, d, Updated(item.test)>> :
                           n \in 1..Len(NamedExprs(item.test)) }
                       \cup SourcePlaces(item.body, d + 1)
                       \cup SourcePlaces(item.orelse, d + 1)
          : i \in 1..Len(block) }

RECURSIVE OutputPlaces(_, _)
\* For every assignment statement of the rewritten block that is followed
\* by a statement: its target, its nesting depth, and the expression of
\* the statement that follows (the last statement of its line, or the test
\* of the if statement after its line).
OutputPlaces(block, d) ==
    UNION { LET item == block[i]
            IN  IF item.s = "Line"
                THEN UNION { IF item.body[j].s # "Assign" THEN {}
                             ELSE (IF j < Len(item.body)
                                   THEN { <<item.body[j].target, d,
                                            ExprOf(item.body[Len(item.body)])>> }
                                   ELSE {})
                                  \cup (IF i < Len(block) /\ block[i + 1].s = "If"
                                        THEN { <<item.body[j].target, d, block[i + 1].test>> }
                                        ELSE {})
                           : j \in 1..Len(item.body) }
                ELSE OutputPlaces(item.body, d + 1) \cup OutputPlaces(item.orelse, d + 1)
          : i \in 1..Len(block) }

\* Target and depth of the places.
Levels(places) == { <<pl[1], pl[2]>> : pl \in places }

C9_HoistedAtOwnLevel ==
    (w_pc = "done" /\ ~StrayIn(w_src)) =>
        LET src     == SourcePlaces(w_src, 0)
            out     == OutputPlaces(w_out, 0)
            targets == { pl[1] : pl \in src }
        IN  /\ src \subseteq out
            /\ \A pl \in out : pl[1] \in targets => <<pl[1], pl[2]>> \in Levels(src)

\* An if with an inline assignment in its test whose body holds an if with
\* an inline assignment of its own has been rewritten.
C9_Witness ==
    /\ w_pc = "done" /\ ~StrayIn(w_src)
    /\ w_src[1].s = "If" /\ NamedExprs(w_src[1].test) # <<>>
    /\ w_src[1].body[1].s = "If" /\ NamedExprs(w_src[1].body[1].test) # <<>>

(***************************************************************************)
(* C10 as claimed: for every while loop with one inline assignment         *)
(* name := expr in its test, and every sequence of values of expr, the     *)
(* rewritten loop makes the same evaluations of expr and executions of     *)
(* the body as the original.                                               *)
(***************************************************************************)
\* The evaluations of expr and the executions of the body of a run.
Calls(trace) == SelectSeq(trace, LAMBDA c : c[1] \in {"f", "body", "process"})

RECURSIVE MaySkip(_)
\* Short-circuit evaluation may skip an inline assignment of e.
MaySkip(e) ==
    \/ e.e = "BooleanOperation" /\ NamedExprs(e.right) # <<>>
    \/ \E i \in 1..Len(Children(e)) : MaySkip(Children(e)[i])

Evaluations(trace) == SelectSeq(trace, LAMBDA c : c[1] \in {"f", "g"})

C11_AllHoistedBeforeTest ==
    (Rewritten /\ w_src \in MultiLoopModules) =>
        LET test == w_src[1].test
            loop == w_out[1]
        IN  /\ Len(w_out) = 1
            /\ loop.s = "While" /\ loop.test = Name("True")
            /\ loop.body[1] = SimpleStatementLine(<<Assign("x", F), Assign("w", G)>>)
            /\ loop.body[2] = If(NotOperation(Updated(test)),
                                 <<SimpleStatementLine(<<Break>>)>>, <<>>)
            /\ SubSeq(loop.body, 3, Len(loop.body)) = w_src[1].body
            /\ w_pc = "ran" =>
                  LET evals == Evaluations(w_run.after)
                  IN  /\ Len(evals) % 2 = 0
                      /\ \A i \in 1..Len(evals) :
                            evals[i][1] = IF i % 2 = 1 THEN "f" ELSE "g"

\* A run in which the original loop skipped the second inline assignment
\* (the first one was false under `and`) and the rewritten loop made it.
C11_Witness ==
    /\ w_pc = "ran" /\ w_src \in MultiLoopModules
    /\ w_src[1].test.op = "and"
    /\ w_run.stream = <<2, 0>> /\ w_run.flag = 1
    /\ Evaluations(w_run.before) = << <<"f", 2>>, <<"g", 2>>, <<"f", 0>> >>
    /\ Evaluations(w_run.after) = << <<"f", 2>>, <<"g", 2>>, <<"f", 0>>, <<"g", 2>> >>

(***************************************************************************)
(* C12: a comprehension (list, set, dict or generator expression) with     *)
(* more than one for clause that contains an inline assignment makes the   *)
(* rewrite raise an error: the traversal never ends with a rewritten tree. *)
(***************************************************************************)
\* The comprehension a module assigns to `out`.
CompOf(module) == module[1].body[1].value

NestedForWithWalrus ==
    /\ w_src \in CompModules
    /\ CompOf(w_src).for_in.inner_for_in # <<>>
    /\ Recorded(CompOf(w_src)) # <<>>

C12_NestedForRaises ==
    NestedForWithWalrus => (w_pc \in {"walk", "error"} /\ w_out = <<>>)

(***************************************************************************)
(* C13: for a list comprehension with one for clause and inline            *)
(* assignments in its filter, the rewritten comprehension yields the same  *)
(* list as the original for every iterable, also when the expression of a  *)
(* later inline assignment refers to the name an earlier one binds.        *)
(***************************************************************************)
C13_SameList ==
    (w_pc = "ran" /\ w_src \in CompModules) => w_run.after = w_run.before

(***************************************************************************)
(* Part 3: the typing-extension compatibility rewriter                     *)
(* (retrofy/_transformations/typing_extensions.py and import_utils.py).    *)
(*                                                                         *)
(* A module is a sequence of statements.  A simple statement line holds    *)
(* one small statement: `import m`, `from m import names`, a statement     *)
(* that mentions typing.X, the patch `typing.X = typing_extensions.X`, or  *)
(* any other statement.  Compound statements are if (with else) and def.   *)
(***************************************************************************)
TypingFeature(name, min_version) == [name |-> name, min_version |-> min_version]

TYPING_FEATURES ==
    << TypingFeature("Literal", <<3, 8>>),
       TypingFeature("get_args", <<3, 10>>),
       TypingFeature("get_origin", <<3, 10>>),
       TypingFeature("final", <<3, 8>>),
       TypingFeature("TypedDict", <<3, 8>>) >>

InFeatureLookup(name) == \E i \in 1..Len(TYPING_FEATURES) : TYPING_FEATURES[i].name = name

FEATURE_LOOKUP(name) ==
    TYPING_FEATURES[CHOOSE i \in 1..Len(TYPING_FEATURES) : TYPING_FEATURES[i].name = name]

\* name [as alias]; alias is the name itself when there is no `as`.
ImportAlias(name, alias) == [name |-> name, alias |-> alias]
Import(module)            == [k |-> "Import", module |-> module]
ImportFrom(module, names) == [k |-> "ImportFrom", module |-> module, names |-> names]
\* A statement that mentions typing.<attr>, as `x: typing.Literal[1]`.
UseTypingDot(attr)        == [k |-> "Use", attr |-> attr]
\* typing.<attr> = typing_extensions.<attr>
AssignPatch(attr)         == [k |-> "AssignPatch", attr |-> attr]
Other                     == [k |-> "Other"]
\* sys.version_info <op> (major, minor)
VersionTest(op, version)  == [t |-> "version", op |-> op, version |-> version]
\* Any other test, as TYPE_CHECKING.
OtherTest                 == [t |-> "other", op |-> "", version |-> <<>>]
IfStmt(test, body, orelse) == [k |-> "If", test |-> test, body |-> body, orelse |-> orelse]
FunctionDef(body)         == [k |-> "FunctionDef", body |-> body]

IsLine(stmt) == stmt.k \notin {"If", "FunctionDef"}

IsImportLine(stmt) == stmt.k \in {"Import", "ImportFrom"}

\* Lexicographic order of version tuples.
VersionLess(a, b) == a[1] < b[1] \/ (a[1] = b[1] /\ a[2] < b[2])

RECURSIVE Dedup(_)
\* A sequence without the repetitions of its elements (first occurrences,
\* in order): the keys of a dict in insertion order.
Dedup(seq) ==
    IF seq = <<>> THEN <<>>
    ELSE LET front == Dedup(SubSeq(seq, 1, Len(seq) - 1))
             last  == seq[Len(seq)]
         IN  IF \E i \in 1..Len(front) : front[i] = last THEN front ELSE Append(front, last)

RECURSIVE SortedVersions(_)
\* sorted(version_groups.keys())
SortedVersions(versions) ==
    IF versions = {} THEN <<>>
    ELSE LET least == CHOOSE v \in versions : \A u \in versions \ {v} : VersionLess(v, u)
         IN  <<least>> \o SortedVersions(versions \ {least})

SeqRange(seq) == { seq[i] : i \in 1..Len(seq) }

\* The sequence with the items inserted in front of position pos (0-based).
InsertAt(seq, pos, items) == SubSeq(seq, 1, pos) \o items \o SubSeq(seq, pos + 1, Len(seq))

(***************************************************************************)
(* EnhancedImportManager.                                                  *)
(***************************************************************************)
\* scan_imports: the names imported by the `from m import ...` lines of the
\* module body, in order.
ScanImports(body) ==
    ConcatAll([i \in 1..Len(body) |->
        IF body[i].k = "ImportFrom"
        THEN [j \in 1..Len(body[i].names) |->
                 [module_name |-> body[i].module,
                  imported_name |-> body[i].names[j].name,
                  effective_name |-> body[i].names[j].alias]]
        ELSE <<>>])

has_import(import_info, module_name, imported_name) ==
    \E i \in 1..Len(import_info) :
        import_info[i].module_name = module_name /\ import_info[i].imported_name = imported_name

get_import_alias(import_info, module_name, imported_name) ==
    import_info[CHOOSE i \in 1..Len(import_info) :
                    /\ import_info[i].module_name = module_name
                    /\ import_info[i].imported_name = imported_name
                    /\ \A j \in 1..(i - 1) :
                         ~(/\ import_info[j].module_name = module_name
                           /\ import_info[j].imported_name = imported_name)].effective_name

\* remove_from_imports: the name is taken out of every top-level
\* `from module_name import ...` line; a line left without names is dropped.
remove_from_imports(import_info, body, module_name, imported_name) ==
    IF ~\E i \in 1..Len(import_info) : import_info[i].module_name = module_name THEN body
    ELSE ConcatAll([i \in 1..Len(body) |->
             IF body[i].k = "ImportFrom" /\ body[i].module = module_name
             THEN LET new_names == SelectSeq(body[i].names,
                                             LAMBDA n : n.name # imported_name)
                  IN  IF new_names = <<>> THEN <<>>
                      ELSE <<ImportFrom(module_name, new_names)>>
             ELSE <<body[i]>>])

\* The number of leading statements that satisfy P.
LeadingWhile(body, P(_)) ==
    CHOOSE n \in 0..Len(body) :
        /\ \A i \in 1..n : P(body[i])
        /\ n = Len(body) \/ ~P(body[n + 1])

\* find_import_position: after the __future__ imports (the modules have no
\* docstring).
find_import_position(body) ==
    LeadingWhile(body, LAMBDA st : st.k = "ImportFrom" /\ st.module = "__future__")

\* find_post_import_position: after the leading import lines.
find_post_import_position(body) == LeadingWhile(body, IsImportLine)

\* _check_early_sys_import: `import sys` is among the leading import lines.
CheckEarlySysImport(body) ==
    \E i \in 1..find_post_import_position(body) : body[i] = Import("sys")

ensure_sys_import(body) ==
    IF CheckEarlySysImport(body) THEN body
    ELSE InsertAt(body, find_import_position(body), <<Import("sys")>>)

\* ensure_direct_import(body, module): `import module` is added after the
\* __future__ imports unless a top-level line imports it already.
ensure_direct_import(body, module) ==
    IF \E i \in 1..Len(body) : body[i] = Import(module) THEN body
    ELSE InsertAt(body, find_import_position(body), <<Import(module)>>)

(***************************************************************************)
(* The traversals.  A node is identified by its path from the module: the  *)
(* position of each enclosing statement in its block (negative in an else  *)
(* block).  Both passes walk the same tree, so a path names the same node  *)
(* in both.                                                                *)
(***************************************************************************)
TEvent(ev, node, id) == [ev |-> ev, node |-> node, id |-> id]

NoStmt == [k |-> "None"]

Attribute(value, attr) == [k |-> "Attribute", value |-> value, attr |-> attr]

RECURSIVE AnalysisEvents(_, _)
\* The calls the tree library makes on the TypingAnalysisVisitor for the
\* statements of a block.
AnalysisEvents(block, path) ==
    ConcatAll([i \in 1..Len(block) |->
        LET stmt == block[i]
            id   == Append(path, i)
        IN  IF stmt.k = "Import" THEN <<TEvent("visit_Import", stmt, id)>>
            ELSE IF stmt.k = "ImportFrom" THEN <<TEvent("visit_ImportFrom", stmt, id)>>
            ELSE IF stmt.k = "Use"
            THEN <<TEvent("visit_Attribute", Attribute("typing", stmt.attr), id)>>
            ELSE IF stmt.k = "AssignPatch"
            THEN <<TEvent("visit_Attribute", Attribute("typing", stmt.attr), id),
                   TEvent("visit_Attribute", Attribute("typing_extensions", stmt.attr), id)>>
            ELSE IF stmt.k = "If"
            THEN <<TEvent("visit_If", stmt, id)>>
                     \o AnalysisEvents(stmt.body, id)
                     \o AnalysisEvents(stmt.orelse, Append(path, -i))
                     \o <<TEvent("leave_If", stmt, id)>>
            ELSE IF stmt.k = "FunctionDef"
            THEN <<TEvent("visit_FunctionDef", stmt, id)>>
                     \o AnalysisEvents(stmt.body, id)
                     \o <<TEvent("leave_FunctionDef", stmt, id)>>
            ELSE <<>>])

RECURSIVE TransformEvents(_, _)
\* The calls for the TypingExtensionsTransformer; "block" is the tree
\* library beginning the statement list of a body or an else block.
TransformEvents(block, path) ==
    ConcatAll([i \in 1..Len(block) |->
        LET stmt == block[i]
            id   == Append(path, i)
        IN  IF stmt.k = "If"
            THEN <<TEvent("visit_If", stmt, id), TEvent("block", NoStmt, id)>>
                     \o TransformEvents(stmt.body, id)
                     \o <<TEvent("block", NoStmt, id)>>
                     \o TransformEvents(stmt.orelse, Append(path, -i))
                     \o <<TEvent("leave_If", stmt, id)>>
            ELSE IF stmt.k = "FunctionDef"
            THEN <<TEvent("visit_FunctionDef", stmt, id), TEvent("block", NoStmt, id)>>
                     \o TransformEvents(stmt.body, id)
                     \o <<TEvent("leave_FunctionDef", stmt, id)>>
            ELSE <<TEvent("leave_SimpleStatementLine", stmt, id)>>])

RECURSIVE NodeAt(_, _)
\* The statement a path names.
NodeAt(block, id) ==
    LET i    == Head(id)
        stmt == IF i > 0 THEN block[i] ELSE block[-i]
    IN  IF Len(id) = 1 THEN stmt
        ELSE IF i > 0 THEN NodeAt(stmt.body, Tail(id))
        ELSE NodeAt(stmt.orelse, Tail(id))

\* The scope path of the statement a path names: its enclosing if and def
\* statements, outermost first.
ScopeOf(id) ==
    [n \in 1..(Len(id) - 1) |->
        Append(SubSeq(id, 1, n - 1), IF id[n] > 0 THEN id[n] ELSE -id[n])]

(***************************************************************************)
(* TypingAnalysisVisitor: the first pass.                                  *)
(***************************************************************************)
UsageInfo(feature, alias, import_style, scope_path) ==
    [feature |-> feature, alias |-> alias, import_style |-> import_style,
     scope_path |-> scope_path]

ImportStatementInfo(import_node, features, scope_path) ==
    [import_node |-> import_node, features |-> features, scope_path |-> scope_path,
     replacement_strategy |-> "in_place"]

\* TypingAnalysisVisitor.__init__
NewAnalysis ==
    [import_info |-> <<>>, usages |-> <<>>, import_statements |-> <<>>,
     scope_stack |-> <<>>, typing_import_scopes |-> <<>>,
     existing_version_checks |-> {}]

\* TypingExtensionsTransformer before its __init__ has run.
NoTransformer ==
    [typing_dot_assignments |-> <<>>, applied_assignments |-> {},
     current_scope_stack |-> <<>>]

TNextEvent == Head(te_events)

Analysing(ev) == te_pc = "analyse" /\ te_events # <<>> /\ TNextEvent.ev = ev

\* _detect_from_typing_imports
DetectFromTypingImports(import_info) ==
    ConcatAll([i \in 1..Len(TYPING_FEATURES) |->
        IF has_import(import_info, "typing", TYPING_FEATURES[i].name)
        THEN <<UsageInfo(TYPING_FEATURES[i],
                         get_import_alias(import_info, "typing", TYPING_FEATURES[i].name),
                         "from_typing", <<>>)>>
        ELSE <<>>])

\* _extract_features_from_import
ExtractFeaturesFromImport(node) ==
    ConcatAll([j \in 1..Len(node.names) |->
        IF InFeatureLookup(node.names[j].name) THEN <<FEATURE_LOOKUP(node.names[j].name)>>
        ELSE <<>>])

\* _process_typing_import: the usages a nested import records.
ProcessTypingImport(node, import_style, scope_path) ==
    ConcatAll([j \in 1..Len(node.names) |->
        IF InFeatureLookup(node.names[j].name)
        THEN <<UsageInfo(FEATURE_LOOKUP(node.names[j].name), node.names[j].alias,
                         import_style, scope_path)>>
        ELSE <<>>])

\* _is_version_check: the test compares sys.version_info (with any operator).
IsVersionCheck(test) == test.t = "version"

\* The statements by which _classify_version_check classifies a block.
ClassOf(stmt) ==
    IF stmt.k = "AssignPatch" THEN "assignment"
    ELSE IF stmt.k = "ImportFrom" /\ stmt.module \in {"typing", "typing_extensions"}
    THEN "conditional_import"
    ELSE ""

\* _classify_version_check: the first classifying statement of the body
\* decides; in the else block only imports are looked at.
ClassifyVersionCheck(node) ==
    LET inBody == SelectSeq(node.body, LAMBDA st : ClassOf(st) # "")
        inElse == SelectSeq(node.orelse, LAMBDA st : ClassOf(st) = "conditional_import")
    IN  IF inBody # <<>> THEN ClassOf(inBody[1])
        ELSE IF inElse # <<>> THEN "conditional_import"
        ELSE ""

\* _detect_existing_version_check, with the node already on the stack.
DetectExistingVersionCheck(node, scope_stack) ==
    IF IsVersionCheck(node.test) /\ ClassifyVersionCheck(node) # ""
    THEN { <<Pop(scope_stack), node.test.version, ClassifyVersionCheck(node)>> }
    ELSE {}

Analysis_visit_Module ==
    /\ Analysing("visit_Module")
    /\ analysis' = [analysis EXCEPT
                       !.import_info = ScanImports(te_in),
                       !.usages = @ \o DetectFromTypingImports(ScanImports(te_in))]
    /\ te_events' = Tail(te_events)
    /\ UNCHANGED <<te_pc, te_run, te_src, te_in, transformer, te_frames, te_first, te_out>>
    /\ UNCHANGED <<matchVars, walrusVars, pureVars, hookVars>>

Analysis_visit_If ==
    /\ Analysing("visit_If")
    /\ LET stack == Append(analysis.scope_stack, TNextEvent.id)
       IN  analysis' = [analysis EXCEPT
                           !.scope_stack = stack,
                           !.existing_version_checks =
                               @ \cup DetectExistingVersionCheck(TNextEvent.node, stack)]
    /\ te_events' = Tail(te_events)
    /\ UNCHANGED <<te_pc, te_run, te_src, te_in, transformer, te_frames, te_first, te_out>>
    /\ UNCHANGED <<matchVars, walrusVars, pureVars, hookVars>>

\* leave_If and leave_FunctionDef of the visitor: the node is popped when it
\* is on top of the stack.
PopScope ==
    /\ analysis' = [analysis EXCEPT
                       !.scope_stack = IF @ # <<>> /\ Top(@) = TNextEvent.id THEN Pop(@) ELSE @]
    /\ te_events' = Tail(te_events)
    /\ UNCHANGED <<te_pc, te_run, te_src, te_in, transformer, te_frames, te_first, te_out>>
    /\ UNCHANGED <<matchVars, walrusVars, pureVars, hookVars>>

Analysis_leave_If == Analysing("leave_If") /\ PopScope

Analysis_visit_FunctionDef ==
    /\ Analysing("visit_FunctionDef")
    /\ analysis' = [analysis EXCEPT !.scope_stack = Append(@, TNextEvent.id)]
    /\ te_events' = Tail(te_events)
    /\ UNCHANGED <<te_pc, te_run, te_src, te_in, transformer, te_frames, te_first, te_out>>
    /\ UNCHANGED <<matchVars, walrusVars, pureVars, hookVars>>

Analysis_leave_FunctionDef == Analysing("leave_FunctionDef") /\ PopScope

Analysis_visit_Import ==
    /\ Analysing("visit_Import")
    /\ analysis' = [analysis EXCEPT
                       !.typing_import_scopes =
                           IF TNextEvent.node.module = "typing"
                           THEN Dedup(Append(@, analysis.scope_stack))
                           ELSE @]
    /\ te_events' = Tail(te_events)
    /\ UNCHANGED <<te_pc, te_run, te_src, te_in, transformer, te_frames, te_first, te_out>>
    /\ UNCHANGED <<matchVars, walrusVars, pureVars, hookVars>>

Analysis_visit_ImportFrom ==
    /\ Analysing("visit_ImportFrom")
    /\ LET node     == TNextEvent.node
           features == ExtractFeaturesFromImport(node)
           scope    == analysis.scope_stack
       IN  analysis' =
               IF node.module # "typing" THEN analysis
               ELSE [analysis EXCEPT
                        !.import_statements =
                            IF features # <<>>
                            THEN Append(@, ImportStatementInfo(TNextEvent.id, features, scope))
                            ELSE @,
                        !.usages =
                            IF scope # <<>>
                            THEN @ \o ProcessTypingImport(node, "from_typing", scope)
                            ELSE @]
    /\ te_events' = Tail(te_events)
    /\ UNCHANGED <<te_pc, te_run, te_src, te_in, transformer, te_frames, te_first, te_out>>
    /\ UNCHANGED <<matchVars, walrusVars, pureVars, hookVars>>

\* visit_Attribute: _check_typing_dot_usage
Analysis_visit_Attribute ==
    /\ Analysing("visit_Attribute")
    /\ LET node == TNextEvent.node
       IN  analysis' =
               IF node.value = "typing" /\ InFeatureLookup(node.attr)
               THEN [analysis EXCEPT
                        !.usages = Append(@, UsageInfo(FEATURE_LOOKUP(node.attr), node.attr,
                                                       "typing_dot", analysis.scope_stack))]
               ELSE analysis
    /\ te_events' = Tail(te_events)
    /\ UNCHANGED <<te_pc, te_run, te_src, te_in, transformer, te_frames, te_first, te_out>>
    /\ UNCHANGED <<matchVars, walrusVars, pureVars, hookVars>>

(***************************************************************************)
(* TypingExtensionsTransformer: the second pass.                           *)
(***************************************************************************)
\* _find_typing_import_scope: the deepest scope with an `import typing`,
\* the first of them in the order they were met; the module when there is
\* none.
FindTypingImportScope(typing_import_scopes) ==
    IF typing_import_scopes = <<>> THEN <<>>
    ELSE typing_import_scopes[
             CHOOSE i \in 1..Len(typing_import_scopes) :
                 /\ \A j \in 1..Len(typing_import_scopes) :
                        Len(typing_import_scopes[j]) <= Len(typing_import_scopes[i])
                 /\ \A j \in 1..(i - 1) :
                        Len(typing_import_scopes[j]) < Len(typing_import_scopes[i])]

\* _find_common_scope_path
FindCommonScopePath(scope_paths) ==
    IF scope_paths = <<>> THEN <<>>
    ELSE IF Len(scope_paths) = 1 THEN scope_paths[1]
    ELSE LET agree(n) == \A p \in 1..Len(scope_paths) :
                             /\ Len(scope_paths[p]) >= n
                             /\ SubSeq(scope_paths[p], 1, n) = SubSeq(scope_paths[1], 1, n)
             depth == CHOOSE n \in 0..Len(scope_paths[1]) :
                          agree(n) /\ \A m \in (n + 1)..Len(scope_paths[1]) : ~agree(m)
         IN  SubSeq(scope_paths[1], 1, depth)

\* _plan_typing_dot_assignments: {scope_path: features}, a dict with at
\* most one key, as a sequence of at most one item.
PlanTypingDotAssignments(an, tree) ==
    LET typing_dot_usages == SelectSeq(an.usages, LAMBDA u : u.import_style = "typing_dot")
        common_scope == FindCommonScopePath(
                            [i \in 1..Len(typing_dot_usages) |-> typing_dot_usages[i].scope_path])
        import_typing_scope == FindTypingImportScope(an.typing_import_scopes)
        optimal_scope ==
            IF /\ common_scope # <<>>
               /\ Len(common_scope) > Len(import_typing_scope)
               /\ Len(common_scope) = 1
               /\ NodeAt(tree, common_scope[1]).k = "If"
            THEN common_scope
            ELSE import_typing_scope
    IN  IF typing_dot_usages = <<>> THEN <<>>
        ELSE << [scope |-> optimal_scope,
                 features |-> Dedup([i \in 1..Len(typing_dot_usages) |->
                                        typing_dot_usages[i].feature])] >>

\* typing_dot_assignments.get(scope, {})
AssignmentsAt(tr, scope) ==
    IF tr.typing_dot_assignments # <<>> /\ tr.typing_dot_assignments[1].scope = scope
    THEN tr.typing_dot_assignments[1].features
    ELSE <<>>

\* A rewriter that takes no notice of the checks found in the source.
VersionCheckIgnored(an, scope_path, version, check_type) == FALSE

\* _version_check_exists
VersionCheckExists(an, scope_path, version, check_type) ==
    <<scope_path, version, check_type>> \in an.existing_version_checks

\* _create_conditional_import_version_check
CreateConditionalImportVersionCheck(version, usages) ==
    LET import_aliases == [i \in 1..Len(usages) |->
                              ImportAlias(usages[i].feature.name, usages[i].alias)]
    IN  IfStmt(VersionTest(">=", version),
               <<ImportFrom("typing", import_aliases)>>,
               <<ImportFrom("typing_extensions", import_aliases)>>)

\* _create_assignment_version_check_for_features
CreateAssignmentVersionCheckForFeatures(version, features) ==
    IfStmt(VersionTest("<", version),
           <<Import("typing_extensions")>>
               \o [i \in 1..Len(features) |-> AssignPatch(features[i].name)],
           <<>>)

\* The items of a sequence with the given minimum version (a group of a
\* defaultdict keyed by version).
VersionGroup(items, version, VersionOf(_)) ==
    SelectSeq(items, LAMBDA x : VersionOf(x) = version)

\* _create_conditional_import_replacement
CreateConditionalImportReplacement(import_node, features) ==
    LET alias(name) == import_node.names[CHOOSE j \in 1..Len(import_node.names) :
                                             import_node.names[j].name = name].alias
        usages == [i \in 1..Len(features) |->
                      UsageInfo(features[i], alias(features[i].name), "from_typing", <<>>)]
        versions == SortedVersions({ features[i].min_version : i \in 1..Len(features) })
    IN  [v \in 1..Len(versions) |->
            CreateConditionalImportVersionCheck(
                versions[v],
                VersionGroup(usages, versions[v], LAMBDA u : u.feature.min_version))]

\* _is_inside_version_check: some if statement on _current_scope_stack
\* tests the version.
IsInsideVersionCheck(tr) ==
    \E i \in 1..Len(tr.current_scope_stack) :
        /\ tr.current_scope_stack[i].k = "If"
        /\ IsVersionCheck(tr.current_scope_stack[i].test)

\* leave_SimpleStatementLine: the statements that take the place of a line.
TypingLeaveSimpleStatementLine(an, tr, line) ==
    IF line.k = "ImportFrom" /\ line.module = "typing" /\ ~IsInsideVersionCheck(tr)
    THEN LET current_names == { line.names[j].name : j \in 1..Len(line.names) }
             nested == SelectSeq(an.import_statements, LAMBDA info : info.scope_path # <<>>)
             transformable_features ==
                 ConcatAll([i \in 1..Len(nested) |->
                     SelectSeq(nested[i].features, LAMBDA f : f.name \in current_names)])
             transformable_names ==
                 { transformable_features[i].name : i \in 1..Len(transformable_features) }
         IN  IF transformable_features # <<>> /\ current_names = transformable_names
             THEN CreateConditionalImportReplacement(line, transformable_features)
             ELSE <<line>>
    ELSE <<line>>

\* The import lines an if body starts with (leave_If).
LeadingImports(body) == LeadingWhile(body, IsImportLine)

\* The versions of the groups that leave_If and leave_Module still have to
\* guard: not applied before and not found in the source.
VersionsToGuard(an, tr, scope, features) ==
    { v \in { features[i].min_version : i \in 1..Len(features) } :
        /\ <<scope, v>> \notin tr.applied_assignments
        /\ ~VersionCheckExists(an, scope, v, "assignment") }

\* leave_If: the if statement with the guards of the assignments planned
\* for it.
TypingLeaveIf(an, tr, id, updated_node) ==
    LET planned == /\ tr.typing_dot_assignments # <<>>
                   /\ tr.typing_dot_assignments[1].scope # <<>>
                   /\ Top(tr.typing_dot_assignments[1].scope) = id
        current_scope == tr.typing_dot_assignments[1].scope
        features == tr.typing_dot_assignments[1].features
        versions == SortedVersions(VersionsToGuard(an, tr, current_scope, features))
        guards == [v \in 1..Len(versions) |->
                      CreateAssignmentVersionCheckForFeatures(
                          versions[v],
                          VersionGroup(features, versions[v], LAMBDA f : f.min_version))]
    IN  IF ~planned THEN updated_node
        ELSE [updated_node EXCEPT
                 !.body = InsertAt(@, LeadingImports(@), guards)]

RECURSIVE RemoveFeatures(_, _, _)
\* The loop of leave_Module over the features of the module-level imports.
RemoveFeatures(import_info, body, features) ==
    IF features = <<>> THEN body
    ELSE RemoveFeatures(import_info,
                        remove_from_imports(import_info, body, "typing", Head(features).name),
                        Tail(features))

\* The transformations leave_Module collects, sorted: the assignment
\* guards first, then the conditional imports, each by ascending version.
ModuleTransformations(an, tr) ==
    LET from_typing_usages ==
            SelectSeq(an.usages,
                      LAMBDA u : u.import_style = "from_typing" /\ u.scope_path = <<>>)
        import_versions ==
            { v \in { from_typing_usages[i].feature.min_version :
                          i \in 1..Len(from_typing_usages) } :
                ~VersionCheckExists(an, <<>>, v, "conditional_import") }
        module_level_assignments == AssignmentsAt(tr, <<>>)
        assignment_versions ==
            SortedVersions(VersionsToGuard(an, tr, <<>>, module_level_assignments))
        sorted_import_versions == SortedVersions(import_versions)
    IN  [v \in 1..Len(assignment_versions) |->
            CreateAssignmentVersionCheckForFeatures(
                assignment_versions[v],
                VersionGroup(module_level_assignments, assignment_versions[v],
                             LAMBDA f : f.min_version))]
        \o
        [v \in 1..Len(sorted_import_versions) |->
            CreateConditionalImportVersionCheck(
                sorted_import_versions[v],
                VersionGroup(from_typing_usages, sorted_import_versions[v],
                             LAMBDA u : u.feature.min_version))]

\* leave_Module: the new module body.
TypingLeaveModule(an, tr, body) ==
    IF an.import_statements = <<>> /\ tr.typing_dot_assignments = <<>> THEN body
    ELSE LET module_level_imports ==
                 SelectSeq(an.import_statements, LAMBDA info : info.scope_path = <<>>)
             removed == RemoveFeatures(
                            an.import_info, body,
                            ConcatAll([i \in 1..Len(module_level_imports) |->
                                          module_level_imports[i].features]))
             with_sys == ensure_sys_import(removed)
             new_body == IF AssignmentsAt(tr, <<>>) # <<>>
                         THEN ensure_direct_import(with_sys, "typing")
                         ELSE with_sys
         IN  InsertAt(new_body, find_post_import_position(new_body),
                      ModuleTransformations(an, tr))

(***************************************************************************)
(* The modules the rewriter is run on: an import section followed by one   *)
(* or two statements.                                                      *)
(***************************************************************************)
MaxItems == 2

Plain(name) == ImportAlias(name, name)

V38 == <<3, 8>>
V39 == <<3, 9>>

ImportSections ==
    { <<>>,
      <<Import("typing")>>,
      <<Import("sys"), Import("typing")>>,
      <<ImportFrom("typing", <<Plain("Literal")>>)>>,
      <<ImportFrom("typing", <<Plain("Literal"), Plain("get_args")>>)>>,
      <<ImportFrom("typing", <<ImportAlias("Literal", "Lit"), Plain("Union")>>)>>,
      <<ImportFrom("__future__", <<Plain("annotations")>>), Import("typing"),
        ImportFrom("typing", <<Plain("final")>>)>> }

\* Guards as the rewriter writes them, found in the source.
ExistingChecks ==
    { IfStmt(VersionTest("<", V38),
             <<Import("typing_extensions"), AssignPatch("Literal")>>, <<>>),
      IfStmt(VersionTest("<", V39),
             <<Import("typing_extensions"), AssignPatch("Literal")>>, <<>>),
      IfStmt(VersionTest(">=", V38),
             <<ImportFrom("typing", <<Plain("Literal")>>)>>,
             <<ImportFrom("typing_extensions", <<Plain("Literal")>>)>>) }

TypingItems ==
    { UseTypingDot("Literal"), UseTypingDot("get_args"), Other,
      IfStmt(OtherTest, <<UseTypingDot("Literal")>>, <<>>),
      IfStmt(OtherTest, <<ImportFrom("typing", <<Plain("Literal")>>)>>, <<Other>>),
      IfStmt(OtherTest,
             <<Import("typing"), UseTypingDot("Literal"), UseTypingDot("get_origin")>>, <<>>),
      FunctionDef(<<UseTypingDot("Literal")>>),
      FunctionDef(<<Import("typing"), UseTypingDot("Literal")>>),
      FunctionDef(<<ImportFrom("typing", <<Plain("Literal")>>)>>),
      FunctionDef(<<ImportFrom("typing", <<Plain("Literal"), Plain("Union")>>)>>),
      FunctionDef(<<ImportFrom("typing", <<Plain("Literal")>>),
                    IfStmt(VersionTest(">=", V38),
                           <<ImportFrom("typing", <<Plain("TypedDict")>>)>>,
                           <<ImportFrom("typing_extensions", <<Plain("TypedDict")>>)>>)>>),
      FunctionDef(<<IfStmt(OtherTest, <<UseTypingDot("get_args")>>, <<>>)>>) }
    \cup ExistingChecks

TypingModules ==
    { section \o items :
        section \in ImportSections,
        items \in UNION { [1..n -> TypingItems] : n \in 1..MaxItems } }

(***************************************************************************)
(* transform_typing_extensions: the analysis pass, then the transformer    *)
(* pass, over the parsed module.                                           *)
(***************************************************************************)
Transforming(ev) == te_pc = "transform" /\ te_events # <<>> /\ TNextEvent.ev = ev

\* The call: the module is parsed and the analysis visitor starts on it.
StartRun(tree) ==
    /\ te_in' = tree
    /\ te_events' = <<TEvent("visit_Module", NoStmt, <<>>)>> \o AnalysisEvents(tree, <<>>)
    /\ analysis' = NewAnalysis
    /\ transformer' = NoTransformer
    /\ te_frames' = <<>>
    /\ te_pc' = "analyse"

transform_typing_extensions ==
    /\ te_pc = "idle"
    /\ \E module \in TypingModules :
          /\ te_src' = module
          /\ StartRun(module)
    /\ te_run' = 1
    /\ UNCHANGED <<te_first, te_out>>
    /\ UNCHANGED <<matchVars, walrusVars, pureVars, hookVars>>

\* TypingExtensionsTransformer.__init__, and the start of its traversal.
NewTransformer ==
    /\ te_pc = "analyse" /\ te_events = <<>>
    /\ transformer' = [typing_dot_assignments |-> PlanTypingDotAssignments(analysis, te_in),
                       applied_assignments |-> {},
                       current_scope_stack |-> <<>>]
    /\ te_events' = Append(TransformEvents(te_in, <<>>), TEvent("leave_Module", NoStmt, <<>>))
    /\ te_frames' = << <<>> >>
    /\ te_pc' = "transform"
    /\ UNCHANGED <<te_run, te_src, te_in, analysis, te_first, te_out>>
    /\ UNCHANGED <<matchVars, walrusVars, pureVars, hookVars>>

\* visit_If and visit_FunctionDef of the transformer push the node; no
\* method of the transformer takes it off again.
PushCurrentScope ==
    /\ transformer' = [transformer EXCEPT !.current_scope_stack = Append(@, TNextEvent.node)]
    /\ te_events' = Tail(te_events)
    /\ UNCHANGED <<te_pc, te_run, te_src, te_in, analysis, te_frames, te_first, te_out>>
    /\ UNCHANGED <<matchVars, walrusVars, pureVars, hookVars>>

Transformer_visit_If == Transforming("visit_If") /\ PushCurrentScope

Transformer_visit_FunctionDef == Transforming("visit_FunctionDef") /\ PushCurrentScope

\* The tree library starts the statement list of a body or an else block.
EnterBlock ==
    /\ Transforming("block")
    /\ te_frames' = Append(te_frames, <<>>)
    /\ te_events' = Tail(te_events)
    /\ UNCHANGED <<te_pc, te_run, te_src, te_in, analysis, transformer, te_first, te_out>>
    /\ UNCHANGED <<matchVars, walrusVars, pureVars, hookVars>>

Transformer_leave_SimpleStatementLine ==
    /\ Transforming("leave_SimpleStatementLine")
    /\ te_frames' = Append(Pop(te_frames),
                           Top(te_frames)
                               \o TypingLeaveSimpleStatementLine(analysis, transformer,
                                                                 TNextEvent.node))
    /\ te_events' = Tail(te_events)
    /\ UNCHANGED <<te_pc, te_run, te_src, te_in, analysis, transformer, te_first, te_out>>
    /\ UNCHANGED <<matchVars, walrusVars, pureVars, hookVars>>

Transformer_leave_If ==
    /\ Transforming("leave_If")
    /\ LET orelse  == Top(te_frames)
           body    == Top(Pop(te_frames))
           outer   == Pop(Pop(te_frames))
           updated == IfStmt(TNextEvent.node.test, body, orelse)
           planned == /\ transformer.typing_dot_assignments # <<>>
                      /\ transformer.typing_dot_assignments[1].scope # <<>>
                      /\ Top(transformer.typing_dot_assignments[1].scope) = TNextEvent.id
           plan    == transformer.typing_dot_assignments[1]
       IN  /\ te_frames' = Append(Pop(outer),
                                  Append(Top(outer),
                                         TypingLeaveIf(analysis, transformer,
                                                       TNextEvent.id, updated)))
           /\ transformer' =
                  IF planned
                  THEN [transformer EXCEPT
                           !.applied_assignments =
                               @ \cup { <<plan.scope, v>> :
                                          v \in VersionsToGuard(analysis, transformer,
                                                                plan.scope, plan.features) }]
                  ELSE transformer
    /\ te_events' = Tail(te_events)
    /\ UNCHANGED <<te_pc, te_run, te_src, te_in, analysis, te_first, te_out>>
    /\ UNCHANGED <<matchVars, walrusVars, pureVars, hookVars>>

\* The tree library rebuilds a def statement from its updated body.
LeaveFunctionDef ==
    /\ Transforming("leave_FunctionDef")
    /\ LET body  == Top(te_frames)
           outer == Pop(te_frames)
       IN  te_frames' = Append(Pop(outer), Append(Top(outer), FunctionDef(body)))
    /\ te_events' = Tail(te_events)
    /\ UNCHANGED <<te_pc, te_run, te_src, te_in, analysis, transformer, te_first, te_out>>
    /\ UNCHANGED <<matchVars, walrusVars, pureVars, hookVars>>

\* leave_Module, after which transform_typing_extensions returns.
Transformer_leave_Module ==
    /\ Transforming("leave_Module")
    /\ te_out' = TypingLeaveModule(analysis, transformer, te_frames[1])
    /\ transformer' =
           [transformer EXCEPT
               !.applied_assignments =
                   IF analysis.import_statements = <<>> /\ transformer.typing_dot_assignments = <<>>
                   THEN @
                   ELSE @ \cup { << <<>>, v >> :
                                   v \in VersionsToGuard(analysis, transformer, <<>>,
                                                         AssignmentsAt(transformer, <<>>)) }]
    /\ te_events' = <<>>
    /\ te_frames' = <<>>
    /\ te_pc' = "done"
    /\ UNCHANGED <<te_run, te_src, te_in, analysis, te_first>>
    /\ UNCHANGED <<matchVars, walrusVars, pureVars, hookVars>>

\* The rewriter is called again, on what it returned.
Rerun ==
    /\ te_pc = "done" /\ te_run = 1
    /\ te_first' = te_out
    /\ StartRun(te_out)
    /\ te_run' = 2
    /\ UNCHANGED <<te_src, te_out>>
    /\ UNCHANGED <<matchVars, walrusVars, pureVars, hookVars>>

InitTyping == MatchIdle /\ WalrusIdle /\ PureIdle /\ TypingIdle /\ HookIdle

NextTyping ==
    \/ transform_typing_extensions
    \/ Analysis_visit_Module
    \/ Analysis_visit_If
    \/ Analysis_leave_If
    \/ Analysis_visit_FunctionDef
    \/ Analysis_leave_FunctionDef
    \/ Analysis_visit_Import
    \/ Analysis_visit_ImportFrom
    \/ Analysis_visit_Attribute
    \/ NewTransformer
    \/ Transformer_visit_If
    \/ Transformer_visit_FunctionDef
    \/ EnterBlock
    \/ Transformer_leave_SimpleStatementLine
    \/ Transformer_leave_If
    \/ LeaveFunctionDef
    \/ Transformer_leave_Module
    \/ Rerun

SpecTyping == InitTyping /\ [][NextTyping]_vars

GuardsOf(block) ==
    LET guards == SelectSeq(block, LAMBDA st :
                      st.k = "If" /\ IsVersionCheck(st.test) /\ ClassifyVersionCheck(st) # "")
    IN  [i \in 1..Len(guards) |-> <<ClassifyVersionCheck(guards[i]), guards[i].test.version>>]

C15_OneGuardPerVersionAndKind ==
    (te_pc = "done" /\ te_run = 1 /\ GuardsOf(te_src) = <<>>) =>
        LET guards == GuardsOf(te_out)
        IN  \A i, j \in 1..Len(guards) :
                i < j => /\ guards[i] # guards[j]
                         /\ guards[i][1] = "conditional_import" => guards[j][1] = guards[i][1]
                         /\ guards[i][1] = guards[j][1] => VersionLess(guards[i][2], guards[j][2])

(***************************************************************************)
(* C16: a guard block is inserted for (scope, version, kind) only if the   *)
(* source has no version check of that version and kind in the same scope. *)
(* Read at every import line the transformer is about to leave: the        *)
(* guards that take its place are not in its scope already.                *)
(***************************************************************************)
C16_InsertedOnlyIfAbsent ==
    Transforming("leave_SimpleStatementLine") =>
        LET line   == TNextEvent.node
            result == TypingLeaveSimpleStatementLine(analysis, transformer, line)
        IN  result # <<line>> =>
                \A i \in 1..Len(result) :
                    ~VersionCheckExists(analysis, ScopeOf(TNextEvent.id),
                                        result[i].test.version, "conditional_import")

(***************************************************************************)
(* Part 4: the rewriters that are one traversal of the module              *)
(* (retrofy/_converters.py): convert_typing_final, convert_dataclass and   *)
(* convert_union.  The modules add classes with decorators and annotated   *)
(* statements to the statements of part 3.                                 *)
(***************************************************************************)
NameExpr(value) == [k |-> "Name", value |-> value]

\* The assignment `name = lambda cls: cls`.
AssignLambda(name) == [k |-> "AssignLambda", name |-> name]

ClassDef(decorators, body) == [k |-> "ClassDef", decorators |-> decorators, body |-> body]

\* The traversal of a rewriter is running and its next call is ev.
Leaving(fn, ev) ==
    p_pc = "walk" /\ p_fn = fn /\ p_events # <<>> /\ Head(p_events).ev = ev

\* The call R(module) begins: the transformer object is made and the
\* traversal starts.
StartRewriter(fn, module, self, events) ==
    /\ p_fn' = fn
    /\ p_in' = module
    /\ p_self' = self
    /\ p_events' = events
    /\ p_frames' = module
    /\ p_pc' = "walk"

(***************************************************************************)
(* TypingFinalTransformer (retrofy/_transformations/typing_final.py).      *)
(***************************************************************************)
\* TypingFinalTransformer.__init__; None is the empty string.
NewTypingFinalTransformer ==
    [has_final_usage |-> FALSE, final_import_style |-> "", has_sys_import |-> FALSE,
     final_alias |-> ""]

\* The leave_Decorator calls of a traversal, then leave_Module.
FinalEvents(module) ==
    ConcatAll([i \in 1..Len(module) |->
        IF module[i].k = "ClassDef"
        THEN [j \in 1..Len(module[i].decorators) |->
                 TEvent("leave_Decorator", module[i].decorators[j], <<i, j>>)]
        ELSE <<>>])
    \o <<TEvent("leave_Module", NoStmt, <<>>)>>

\* The `from typing import ...` lines at top level that import final.
FinalImports(body) ==
    SelectSeq(body, LAMBDA st :
        /\ st.k = "ImportFrom" /\ st.module = "typing"
        /\ \E j \in 1..Len(st.names) : st.names[j].name = "final")

\* _scan_for_final_imports: the fields after the scan; the first import of
\* final decides.
ScanForFinalImports(self, body) ==
    IF FinalImports(body) = <<>> THEN self
    ELSE LET names == FinalImports(body)[1].names
             first == names[CHOOSE j \in 1..Len(names) :
                              /\ names[j].name = "final"
                              /\ \A h \in 1..(j - 1) : names[h].name # "final"]
         IN  [self EXCEPT !.has_final_usage = TRUE,
                          !.final_import_style = "from_typing",
                          !.final_alias = first.alias]

\* _check_existing_sys_import: `import sys` is among the leading import
\* lines.
CheckExistingSysImport(body) ==
    \E i \in 1..LeadingWhile(body, IsImportLine) : body[i] = Import("sys")

\* _update_imports: final is taken out of the top-level typing imports.
UpdateImports(self, body) ==
    IF self.final_import_style # "from_typing" THEN body
    ELSE ConcatAll([i \in 1..Len(body) |->
             IF body[i].k = "ImportFrom" /\ body[i].module = "typing"
             THEN LET new_names == SelectSeq(body[i].names, LAMBDA n : n.name # "final")
                  IN  IF new_names = <<>> THEN <<>>
                      ELSE <<ImportFrom("typing", new_names)>>
             ELSE <<body[i]>>])

\* _find_sys_import_position: after the __future__ imports.
FindSysImportPosition(body) ==
    LeadingWhile(body, LAMBDA st : st.k = "ImportFrom" /\ st.module = "__future__")

\* _find_version_check_position: after the leading import lines.
FindVersionCheckPosition(body) == LeadingWhile(body, IsImportLine)

\* _create_version_check_block
CreateVersionCheckBlock(self) ==
    LET alias_name == IF self.final_import_style = "from_typing"
                      THEN (IF self.final_alias # "" THEN self.final_alias ELSE "final")
                      ELSE "__typing_final"
    IN  IfStmt(VersionTest(">=", <<3, 8>>),
               <<ImportFrom("typing", <<ImportAlias("final", alias_name)>>)>>,
               <<AssignLambda(alias_name)>>)

\* leave_Module of the TypingFinalTransformer: the new module body.
FinalLeaveModule(self, body) ==
    LET scanned  == ScanForFinalImports(self, body)
        updated  == UpdateImports(scanned, body)
        with_sys == IF CheckExistingSysImport(body) THEN updated
                    ELSE InsertAt(updated, FindSysImportPosition(updated), <<Import("sys")>>)
    IN  IF ~scanned.has_final_usage THEN body
        ELSE InsertAt(with_sys, FindVersionCheckPosition(with_sys),
                      <<CreateVersionCheckBlock(scanned)>>)

\* Modules with classes that are, or are not, marked final.
FinalSections ==
    { <<>>,
      <<Import("typing")>>,
      <<ImportFrom("typing", <<Plain("final")>>)>>,
      <<ImportFrom("typing", <<ImportAlias("final", "fin")>>)>>,
      <<Import("sys"), ImportFrom("typing", <<Plain("final"), Plain("Union")>>)>>,
      <<ImportFrom("__future__", <<Plain("annotations")>>),
        ImportFrom("typing", <<Plain("final")>>)>> }

FinalItems ==
    { Other,
      ClassDef(<<>>, <<>>),
      ClassDef(<<NameExpr("final")>>, <<>>),
      ClassDef(<<NameExpr("fin")>>, <<>>),
      ClassDef(<<Attribute("typing", "final")>>, <<>>),
      ClassDef(<<NameExpr("other"), NameExpr("final")>>, <<>>) }

FinalModules ==
    { section \o items :
        section \in FinalSections,
        items \in UNION { [1..n -> FinalItems] : n \in 1..MaxItems } }

convert_typing_final ==
    /\ p_pc = "idle"
    /\ \E module \in FinalModules :
          StartRewriter("convert_typing_final", module, NewTypingFinalTransformer,
                        FinalEvents(module))
    /\ p_run' = 1
    /\ UNCHANGED <<p_first, p_out>>
    /\ UNCHANGED <<matchVars, walrusVars, typingVars, hookVars>>

\* leave_Decorator: @final (or the alias already known) and @typing.final
\* are noted; @typing.final becomes @__typing_final.
TypingFinal_leave_Decorator ==
    /\ Leaving("convert_typing_final", "leave_Decorator")
    /\ LET decorator == Head(p_events).node
           i == Head(p_events).id[1]
           j == Head(p_events).id[2]
           by_name == /\ decorator.k = "Name"
                      /\ \/ decorator.value = "final"
                         \/ p_self.final_alias # "" /\ decorator.value = p_self.final_alias
           by_attribute == /\ decorator.k = "Attribute"
                           /\ decorator.value = "typing" /\ decorator.attr = "final"
       IN  /\ p_self' = IF by_name
                        THEN [p_self EXCEPT !.has_final_usage = TRUE,
                                            !.final_import_style = "from_typing"]
                        ELSE IF by_attribute
                        THEN [p_self EXCEPT !.has_final_usage = TRUE,
                                            !.final_import_style = "typing_dot"]
                        ELSE p_self
           /\ p_frames' = IF ~by_name /\ by_attribute
                          THEN [p_frames EXCEPT ![i].decorators[j] = NameExpr("__typing_final")]
                          ELSE p_frames
    /\ p_events' = Tail(p_events)
    /\ UNCHANGED <<p_pc, p_fn, p_run, p_in, p_first, p_out>>
    /\ UNCHANGED <<matchVars, walrusVars, typingVars, hookVars>>

TypingFinal_leave_Module ==
    /\ Leaving("convert_typing_final", "leave_Module")
    /\ p_self' = (IF ScanForFinalImports(p_self, p_frames).has_final_usage
                  THEN [ScanForFinalImports(p_self, p_frames) EXCEPT
                           !.has_sys_import = CheckExistingSysImport(p_frames)]
                  ELSE ScanForFinalImports(p_self, p_frames))
    /\ p_out' = FinalLeaveModule(p_self, p_frames)
    /\ p_events' = <<>>
    /\ p_frames' = <<>>
    /\ p_pc' = "done"
    /\ UNCHANGED <<p_fn, p_run, p_in, p_first>>
    /\ UNCHANGED <<matchVars, walrusVars, typingVars, hookVars>>

\* convert_typing_final is applied to the module it returned.
RerunTypingFinal ==
    /\ p_pc = "done" /\ p_fn = "convert_typing_final" /\ p_run = 1
    /\ p_first' = p_out
    /\ StartRewriter("convert_typing_final", p_out, NewTypingFinalTransformer,
                     FinalEvents(p_out))
    /\ p_run' = 2
    /\ UNCHANGED p_out
    /\ UNCHANGED <<matchVars, walrusVars, typingVars, hookVars>>

\* The traversal of a rewriter that has no leave_Module ends: visit
\* returns the module with the replacements made.
VisitReturns ==
    /\ p_pc = "walk" /\ p_events = <<>>
    /\ p_out' = p_frames
    /\ p_frames' = <<>>
    /\ p_pc' = "done"
    /\ UNCHANGED <<p_fn, p_run, p_in, p_events, p_self, p_first>>
    /\ UNCHANGED <<matchVars, walrusVars, typingVars, hookVars>>

(***************************************************************************)
(* DataclassTransformer (retrofy/_transformations/dataclass.py).  A class  *)
(* body is a sequence of lines: an annotated declaration `x: T` or         *)
(* `x: T = v`, an assignment `a = b = v`, or any other statement.          *)
(***************************************************************************)
MaxBody == 3

\* dataclass(keyword=value, ...)
CallExpr(func, args) == [k |-> "Call", func |-> func, args |-> args]
Arg(keyword, value)  == [keyword |-> keyword, value |-> value]
AnnAssign(target)    == [k |-> "AnnAssign", target |-> target]
\* value: the strings of a tuple of string literals (empty for any other
\* value).
ClassAssign(targets, value) == [k |-> "Assign", targets |-> targets, value |-> value]

\* _has_dataclass_decorator
HasDataclassDecorator(class_def) ==
    \E d \in 1..Len(class_def.decorators) :
        LET decorator == class_def.decorators[d]
        IN  \/ decorator.k = "Name" /\ decorator.value = "dataclass"
            \/ decorator.k = "Call" /\ decorator.func = "dataclass"

\* _has_match_args_false
HasMatchArgsFalse(class_def) ==
    \E d \in 1..Len(class_def.decorators) :
        LET decorator == class_def.decorators[d]
        IN  /\ decorator.k = "Call" /\ decorator.func = "dataclass"
            /\ \E a \in 1..Len(decorator.args) :
                   decorator.args[a] = Arg("match_args", "False")

\* _has_match_args_attribute: an assignment to __match_args__ on a line of
\* the body (an annotated declaration on a line is not looked at).
HasMatchArgsAttribute(class_def) ==
    \E i \in 1..Len(class_def.body) :
        /\ class_def.body[i].k = "Assign"
        /\ \E t \in 1..Len(class_def.body[i].targets) :
               class_def.body[i].targets[t] = "__match_args__"

\* _extract_field_names: the targets of the assignments and of the
\* annotated declarations of the body, in order.
ExtractFieldNames(class_def) ==
    ConcatAll([i \in 1..Len(class_def.body) |->
        IF class_def.body[i].k = "Assign" THEN class_def.body[i].targets
        ELSE IF class_def.body[i].k = "AnnAssign" THEN <<class_def.body[i].target>>
        ELSE <<>>])

\* The names of the annotated declarations only.
AnnotatedFieldNames(class_def) ==
    ConcatAll([i \in 1..Len(class_def.body) |->
        IF class_def.body[i].k = "AnnAssign" THEN <<class_def.body[i].target>> ELSE <<>>])

\* _create_match_args_statement
CreateMatchArgsStatement(field_names) == ClassAssign(<<"__match_args__">>, field_names)

\* leave_ClassDef of the DataclassTransformer: the class that takes the
\* place of the class.
DataclassLeaveClassDef(updated_node) ==
    IF ~HasDataclassDecorator(updated_node) THEN updated_node
    ELSE IF HasMatchArgsFalse(updated_node) THEN updated_node
    ELSE IF HasMatchArgsAttribute(updated_node) THEN updated_node
    ELSE IF ExtractFieldNames(updated_node) = <<>> THEN updated_node
    ELSE [updated_node EXCEPT
             !.body = Append(@, CreateMatchArgsStatement(ExtractFieldNames(updated_node)))]

DataclassDecorators ==
    { <<>>,
      <<NameExpr("other")>>,
      <<NameExpr("dataclass")>>,
      <<CallExpr("dataclass", <<>>)>>,
      <<CallExpr("dataclass", <<Arg("frozen", "True")>>)>>,
      <<CallExpr("dataclass", <<Arg("match_args", "False")>>)>> }

ClassLines ==
    { AnnAssign("x"), AnnAssign("y"), ClassAssign(<<"z">>, <<>>), Other,
      ClassAssign(<<"__match_args__">>, <<"y">>), AnnAssign("__match_args__") }

ClassBodies == UNION { [1..n -> ClassLines] : n \in 0..MaxBody }

\* A module is an import line and one class.
DataclassModules ==
    { <<ImportFrom("dataclasses", <<Plain("dataclass")>>), ClassDef(decorators, body)>> :
        decorators \in DataclassDecorators, body \in ClassBodies }

\* The leave_ClassDef calls of a traversal.
ClassEvents(module) ==
    ConcatAll([i \in 1..Len(module) |->
        IF module[i].k = "ClassDef" THEN <<TEvent("leave_ClassDef", module[i], <<i>>)>>
        ELSE <<>>])

convert_dataclass ==
    /\ p_pc = "idle"
    /\ \E module \in DataclassModules :
          StartRewriter("convert_dataclass", module, <<>>, ClassEvents(module))
    /\ p_run' = 1
    /\ UNCHANGED <<p_first, p_out>>
    /\ UNCHANGED <<matchVars, walrusVars, typingVars, hookVars>>

Dataclass_leave_ClassDef ==
    /\ Leaving("convert_dataclass", "leave_ClassDef")
    /\ LET i == Head(p_events).id[1]
       IN  p_frames' = [p_frames EXCEPT ![i] = DataclassLeaveClassDef(p_frames[i])]
    /\ p_events' = Tail(p_events)
    /\ UNCHANGED <<p_pc, p_fn, p_run, p_in, p_self, p_first, p_out>>
    /\ UNCHANGED <<matchVars, walrusVars, typingVars, hookVars>>

\* convert_dataclass is applied to the module it returned.
RerunDataclass ==
    /\ p_pc = "done" /\ p_fn = "convert_dataclass" /\ p_run = 1
    /\ p_first' = p_out
    /\ StartRewriter("convert_dataclass", p_out, <<>>, ClassEvents(p_out))
    /\ p_run' = 2
    /\ UNCHANGED p_out
    /\ UNCHANGED <<matchVars, walrusVars, typingVars, hookVars>>

(***************************************************************************)
(* TypingTransformer (retrofy/_converters.py): convert_union.  An          *)
(* annotated line `c: <annotation>` carries one annotation; an annotation  *)
(* is a name, a binary operation, or a subscript with its elements.        *)
(***************************************************************************)
BinaryOperation(left, operator, right) ==
    [k |-> "BinaryOperation", left |-> left, operator |-> operator, right |-> right]

Subscript(value, slice) == [k |-> "Subscript", value |-> value, slice |-> slice]

AnnotatedLine(annotation) == [k |-> "Annotated", annotation |-> annotation]

\* typing.Union[left, right]
TypingUnion(left, right) == Subscript(Attribute("typing", "Union"), <<left, right>>)

\* leave_Annotation: the annotation that takes the place of the annotation;
\* only the operation at its top is looked at.
LeaveAnnotation(annotation) ==
    IF annotation.k = "BinaryOperation" /\ annotation.operator = "|"
    THEN TypingUnion(annotation.left, annotation.right)
    ELSE annotation

RECURSIVE ContainsBitOr(_)
\* The `|` operator occurs somewhere in the expression.
ContainsBitOr(expr) ==
    IF expr.k = "BinaryOperation"
    THEN expr.operator = "|" \/ ContainsBitOr(expr.left) \/ ContainsBitOr(expr.right)
    ELSE IF expr.k = "Subscript"
    THEN ContainsBitOr(expr.value) \/ \E i \in 1..Len(expr.slice) : ContainsBitOr(expr.slice[i])
    ELSE FALSE

AnnA == NameExpr("int")
AnnB == NameExpr("str")
AnnC == NameExpr("None")

Annotations ==
    { AnnA,
      BinaryOperation(AnnA, "|", AnnB),
      BinaryOperation(BinaryOperation(AnnA, "|", AnnB), "|", AnnC),
      Subscript(NameExpr("list"), <<BinaryOperation(AnnA, "|", AnnC)>>),
      Subscript(NameExpr("dict"), <<AnnB, AnnA>>),
      TypingUnion(AnnA, AnnB) }

UnionSections ==
    { <<>>, <<Import("foo")>>, <<Import("typing")>>,
      <<ImportFrom("__future__", <<Plain("annotations")>>), Import("foo")>> }

UnionModules ==
    { section \o [i \in 1..Len(annotations) |-> AnnotatedLine(annotations[i])] :
        section \in UnionSections,
        annotations \in UNION { [1..n -> Annotations] : n \in 1..MaxItems } }

\* The leave_Annotation calls of a traversal, then leave_Module.
UnionEvents(module) ==
    ConcatAll([i \in 1..Len(module) |->
        IF module[i].k = "Annotated"
        THEN <<TEvent("leave_Annotation", module[i].annotation, <<i>>)>>
        ELSE <<>>])
    \o <<TEvent("leave_Module", NoStmt, <<>>)>>

convert_union ==
    /\ p_pc = "idle"
    /\ \E module \in UnionModules :
          StartRewriter("convert_union", module, [require_typing |-> FALSE],
                        UnionEvents(module))
    /\ p_run' = 1
    /\ UNCHANGED <<p_first, p_out>>
    /\ UNCHANGED <<matchVars, walrusVars, typingVars, hookVars>>

Typing_leave_Annotation ==
    /\ Leaving("convert_union", "leave_Annotation")
    /\ LET i == Head(p_events).id[1]
           annotation == p_frames[i].annotation
       IN  /\ p_frames' = [p_frames EXCEPT ![i].annotation = LeaveAnnotation(annotation)]
           /\ p_self' = [p_self EXCEPT
                            !.require_typing =
                                @ \/ (annotation.k = "BinaryOperation" /\ annotation.operator = "|")]
    /\ p_events' = Tail(p_events)
    /\ UNCHANGED <<p_pc, p_fn, p_run, p_in, p_first, p_out>>
    /\ UNCHANGED <<matchVars, walrusVars, typingVars, hookVars>>

\* leave_Module of the TypingTransformer: `import typing` is ensured when
\* an annotation was rewritten.
Typing_leave_Module ==
    /\ Leaving("convert_union", "leave_Module")
    /\ p_out' = IF p_self.require_typing THEN ensure_direct_import(p_frames, "typing")
                ELSE p_frames
    /\ p_events' = <<>>
    /\ p_frames' = <<>>
    /\ p_pc' = "done"
    /\ UNCHANGED <<p_fn, p_run, p_in, p_self, p_first>>
    /\ UNCHANGED <<matchVars, walrusVars, typingVars, hookVars>>

(***************************************************************************)
(* The rewriters as functions of the source text.  A text is a sequence of *)
(* characters: a name character, a space, a newline, the # that starts a   *)
(* comment, and (as one symbol) the nine characters `list[str]`.           *)
(***************************************************************************)
MaxText == 4

NL == "newline"
SP == "space"
ListStr == "list[str]"

TextChars == {"x", SP, NL, "#", ListStr}

RECURSIVE SplitLines(_)
\* str.splitlines()
SplitLines(text) ==
    IF text = <<>> THEN <<>>
    ELSE IF \E i \in 1..Len(text) : text[i] = NL
    THEN LET n == CHOOSE i \in 1..Len(text) :
                      text[i] = NL /\ \A j \in 1..(i - 1) : text[j] # NL
         IN  <<SubSeq(text, 1, n - 1)>> \o SplitLines(SubSeq(text, n + 1, Len(text)))
    ELSE <<text>>

RECURSIVE JoinLines(_)
\* "\n".join(lines)
JoinLines(lines) ==
    IF lines = <<>> THEN <<>>
    ELSE IF Len(lines) = 1 THEN lines[1]
    ELSE lines[1] \o <<NL>> \o JoinLines(Tail(lines))

\* line.strip() is empty.
IsBlank(line) == \A i \in 1..Len(line) : line[i] = SP

\* The last step of transform_typing_extensions: whitespace-only lines are
\* emptied and the text ends with one newline.
StripBlankLines(code) ==
    LET lines == SplitLines(code)
    IN  JoinLines([i \in 1..Len(lines) |-> IF IsBlank(lines[i]) THEN <<>> ELSE lines[i]])
            \o <<NL>>

\* The part of a line in front of its comment.
CodePart(line) ==
    IF \E i \in 1..Len(line) : line[i] = "#"
    THEN SubSeq(line, 1, (CHOOSE i \in 1..Len(line) :
                              line[i] = "#" /\ \A j \in 1..(i - 1) : line[j] # "#") - 1)
    ELSE line

\* A line the parser accepts: a name or `list[str]` as a statement, not
\* indented, then spaces, then possibly a comment.
ValidLine(line) ==
    LET code == CodePart(line)
    IN  \E n \in 0..Len(code) :
            /\ \A i \in (n + 1)..Len(code) : code[i] = SP
            /\ \/ \A i \in 1..n : code[i] = "x"
               \/ n = 1 /\ code[1] = ListStr

Texts ==
    { text \in UNION { [1..n -> TextChars] : n \in 0..MaxText } :
        \A i \in 1..Len(SplitLines(text)) : ValidLine(SplitLines(text)[i]) }

\* The text holds none of the constructs a rewriter is after: `list[str]`
\* occurs in comments only.
NoTargetedConstruct(text) ==
    \A i \in 1..Len(SplitLines(text)) :
        \A j \in 1..Len(CodePart(SplitLines(text)[i])) :
            CodePart(SplitLines(text)[i])[j] # ListStr

\* convert_sequence_subscript: orig.replace("list[str]", "typing.List[str]")
ConvertSequenceSubscript(orig) ==
    [i \in 1..Len(orig) |-> IF orig[i] = ListStr THEN "typing.List[str]" ELSE orig[i]]

\* The rewriters convert calls, in the order of its lines.
ConvertRewriters ==
    << "convert_sequence_subscript", "convert_walrus_operator", "convert_type_alias",
       "convert_dataclass", "convert_typing_final", "convert_match_statement",
       "convert_union" >>

\* convert on a text: mod = cst.parse_module(code); the calls of the
\* rewriters lie ahead.
convert ==
    /\ p_pc = "idle"
    /\ \E code \in Texts :
          StartRewriter("convert", code, [applied |-> <<>>],
                        [i \in 1..Len(ConvertRewriters) |->
                            TEvent("apply", ConvertRewriters[i], <<i>>)])
    /\ p_run' = 1
    /\ UNCHANGED <<p_first, p_out>>
    /\ UNCHANGED <<matchVars, walrusVars, typingVars, hookVars>>

\* mod = convert_...(mod): the text replacement of
\* convert_sequence_subscript; the walrus traversal, which finds no node
\* of its own in these texts; then convert_type_alias, which evaluates
\* type_alias.PEP695Transformer, a name the module type_alias does not
\* define (its class is TypeAliasTransformer): AttributeError is raised out
\* of convert, and the calls after it and the rendering are not reached.
ConvertApply ==
    /\ Leaving("convert", "apply")
    /\ LET fn == Head(p_events).node
       IN  IF fn = "convert_type_alias"
           THEN /\ p_pc' = "error"
                /\ UNCHANGED <<p_events, p_self, p_frames>>
           ELSE /\ p_frames' = IF fn = "convert_sequence_subscript"
                               THEN ConvertSequenceSubscript(p_frames)
                               ELSE p_frames
                /\ p_self' = [p_self EXCEPT !.applied = Append(@, fn)]
                /\ p_events' = Tail(p_events)
                /\ UNCHANGED p_pc
    /\ UNCHANGED <<p_fn, p_run, p_in, p_first, p_out>>
    /\ UNCHANGED <<matchVars, walrusVars, typingVars, hookVars>>

\* transform_typing_extensions on a text without typing features: both
\* passes leave the tree as it was parsed, the rendered text goes through
\* the last step.
TransformTypingExtensionsText ==
    /\ p_pc = "idle"
    /\ \E source_code \in { t \in Texts : NoTargetedConstruct(t) } :
          /\ p_in' = source_code
          /\ p_out' = StripBlankLines(source_code)
    /\ p_fn' = "transform_typing_extensions"
    /\ p_run' = 1
    /\ p_pc' = "done"
    /\ UNCHANGED <<p_events, p_self, p_frames, p_first>>
    /\ UNCHANGED <<matchVars, walrusVars, typingVars, hookVars>>

(***************************************************************************)
(* TypeAliasTransformer (retrofy/_transformations/type_alias.py).  A line  *)
(* `type Name[T, ...] = value` carries the name and the names of its type  *)
(* parameters (none for an alias that is not generic).                     *)
(***************************************************************************)
TypeAlias(name, type_parameters) ==
    [k |-> "TypeAlias", name |-> name, type_parameters |-> type_parameters]

\* T = typing.TypeVar("T")
TypeVarAssign(param_name) == [k |-> "TypeVarAssign", name |-> param_name]

\* Name: typing.TypeAlias = value
TypeAliasAnnAssign(name) == [k |-> "TypeAliasAnnAssign", name |-> name]

\* Name = value
TypeAliasAssign(name) == [k |-> "TypeAliasAssign", name |-> name]

\* TypeAliasTransformer.__init__
NewTypeAliasTransformer == [needs_typing_import |-> FALSE]

\* leave_SimpleStatementLine: the lines that take the place of the line.
TypeAliasLeaveLine(updated_node) ==
    IF updated_node.k # "TypeAlias" THEN <<updated_node>>
    ELSE IF updated_node.type_parameters # <<>>
    THEN [i \in 1..Len(updated_node.type_parameters) |->
             TypeVarAssign(updated_node.type_parameters[i])]
         \o <<TypeAliasAnnAssign(updated_node.name)>>
    ELSE <<TypeAliasAssign(updated_node.name)>>

\* leave_Module: some top-level line is `import typing` or a
\* `from typing import ...`.
HasTypingImport(body) ==
    \E i \in 1..Len(body) :
        \/ body[i].k = "Import" /\ body[i].module = "typing"
        \/ body[i].k = "ImportFrom" /\ body[i].module = "typing"

\* leave_Module: the position after the last top-level __future__ import.
TypeAliasInsertPos(body) ==
    LET future == { i \in 1..Len(body) :
                      body[i].k = "ImportFrom" /\ body[i].module = "__future__" }
    IN  IF future = {} THEN 0 ELSE CHOOSE i \in future : \A j \in future : j <= i

\* leave_Module of the TypeAliasTransformer: the new module body.
TypeAliasLeaveModule(self, body) ==
    IF ~self.needs_typing_import THEN body
    ELSE IF HasTypingImport(body) THEN body
    ELSE InsertAt(body, TypeAliasInsertPos(body), <<Import("typing")>>)

TypeAliasSections ==
    { <<>>,
      <<Import("typing")>>,
      <<Import("os")>>,
      <<ImportFrom("typing", <<Plain("List")>>)>>,
      <<ImportFrom("__future__", <<Plain("annotations")>>)>>,
      <<ImportFrom("__future__", <<Plain("annotations")>>), Import("os")>>,
      <<Import("os"), Import("typing")>> }

TypeAliasItems ==
    { Other,
      TypeAlias("Point", <<>>),
      TypeAlias("Pair", <<"T">>),
      TypeAlias("Map", <<"K", "V">>) }

TypeAliasModules ==
    { section \o items :
        section \in TypeAliasSections,
        items \in UNION { [1..n -> TypeAliasItems] : n \in 1..MaxItems } }

\* The leave_SimpleStatementLine calls of a traversal, then leave_Module.
TypeAliasEvents(module) ==
    [i \in 1..Len(module) |-> TEvent("leave_SimpleStatementLine", module[i], <<i>>)]
        \o <<TEvent("leave_Module", NoStmt, <<>>)>>

\* module.visit(TypeAliasTransformer()): the traversal convert_type_alias
\* is written for; the rebuilt body starts empty.
VisitTypeAlias ==
    /\ p_pc = "idle"
    /\ \E module \in TypeAliasModules :
          /\ p_in' = module
          /\ p_events' = TypeAliasEvents(module)
    /\ p_fn' = "type_alias"
    /\ p_self' = NewTypeAliasTransformer
    /\ p_frames' = <<>>
    /\ p_pc' = "walk"
    /\ p_run' = 1
    /\ UNCHANGED <<p_first, p_out>>
    /\ UNCHANGED <<matchVars, walrusVars, typingVars, hookVars>>

TypeAlias_leave_SimpleStatementLine ==
    /\ Leaving("type_alias", "leave_SimpleStatementLine")
    /\ LET updated_node == Head(p_events).node
       IN  /\ p_frames' = p_frames \o TypeAliasLeaveLine(updated_node)
           /\ p_self' = [p_self EXCEPT
                            !.needs_typing_import =
                                @ \/ (/\ updated_node.k = "TypeAlias"
                                      /\ updated_node.type_parameters # <<>>)]
    /\ p_events' = Tail(p_events)
    /\ UNCHANGED <<p_pc, p_fn, p_run, p_in, p_first, p_out>>
    /\ UNCHANGED <<matchVars, walrusVars, typingVars, hookVars>>

TypeAlias_leave_Module ==
    /\ Leaving("type_alias", "leave_Module")
    /\ p_out' = TypeAliasLeaveModule(p_self, p_frames)
    /\ p_events' = <<>>
    /\ p_frames' = <<>>
    /\ p_pc' = "done"
    /\ UNCHANGED <<p_fn, p_run, p_in, p_self, p_first>>
    /\ UNCHANGED <<matchVars, walrusVars, typingVars, hookVars>>

InitRewriters == MatchIdle /\ WalrusIdle /\ TypingIdle /\ PureIdle /\ HookIdle

NextRewriters ==
    \/ convert_typing_final
    \/ TypingFinal_leave_Decorator
    \/ TypingFinal_leave_Module
    \/ RerunTypingFinal
    \/ convert_dataclass
    \/ Dataclass_leave_ClassDef
    \/ VisitReturns
    \/ convert_union
    \/ Typing_leave_Annotation
    \/ Typing_leave_Module
    \/ convert
    \/ TransformTypingExtensionsText
    \/ ConvertApply
    \/ RerunDataclass
    \/ VisitTypeAlias
    \/ TypeAlias_leave_SimpleStatementLine
    \/ TypeAlias_leave_Module

SpecRewriters == InitRewriters /\ [][NextRewriters]_vars

(***************************************************************************)
(* Part 5: the import hook of typing_to_the_future/_meta_hook_converter.py.*)
(* A module name is the sequence of its dotted components; a finder is a   *)
(* record of its class and, for a MyMetaPathFinder, its package_names.     *)
(***************************************************************************)
MaxCalls == 4

MyMetaPathFinder(package_names) ==
    [cls |-> "MyMetaPathFinder", package_names |-> package_names]

\* The finder of the interpreter that finds the modules on the path.
PathFinder == [cls |-> "PathFinder", package_names |-> {}]

\* fullname == prefix or fullname.startswith(f'{prefix}.')
MatchesPrefix(fullname, prefix) ==
    /\ Len(prefix) <= Len(fullname)
    /\ SubSeq(fullname, 1, Len(prefix)) = prefix

\* The modules the other finders find.
ModulesOnPath ==
    { <<"a">>, <<"a", "b">>, <<"a", "b", "c">>, <<"a", "x">>, <<"b">>, <<"b", "y">>, <<"c">> }

FullNames == ModulesOnPath \cup { <<"a", "zz">>, <<"zz">> }

\* The lists register_hook is called with.
PackageLists ==
    { << <<"a">> >>, << <<"b">> >>, << <<"a", "b">> >>, << <<"a">>, <<"b">> >> }

\* MyMetaPathFinder.find_spec: the loader of the spec it returns, "" for
\* None.  Any registered prefix the name does not match ends the call;
\* otherwise the other finders of sys.meta_path are asked.
FindSpec(self, fullname) ==
    IF \E prefix \in self.package_names : ~MatchesPrefix(fullname, prefix) THEN ""
    ELSE IF \E i \in 1..Len(sys_meta_path) :
                /\ sys_meta_path[i].cls # "MyMetaPathFinder"
                /\ fullname \in ModulesOnPath
         THEN "OnTheFlyConverter"
         ELSE ""

\* register_hook(package_names)
register_hook ==
    /\ h_calls < MaxCalls
    /\ \E package_names \in PackageLists :
          LET names == { package_names[i] : i \in 1..Len(package_names) }
              found == { i \in 1..Len(sys_meta_path) :
                           sys_meta_path[i].cls = "MyMetaPathFinder" }
              first == CHOOSE i \in found : \A j \in found : i <= j
          IN  /\ sys_meta_path' =
                    IF found = {}
                    THEN <<MyMetaPathFinder(names)>> \o sys_meta_path
                    ELSE [sys_meta_path EXCEPT ![first].package_names = @ \cup names]
              /\ h_registered' = h_registered \cup names
    /\ h_calls' = h_calls + 1
    /\ UNCHANGED h_spec
    /\ UNCHANGED <<matchVars, walrusVars, typingVars, pureVars>>

\* The import system asks the hook, the first finder of sys.meta_path, for
\* a module.
find_spec ==
    /\ h_calls < MaxCalls
    /\ sys_meta_path # <<>> /\ sys_meta_path[1].cls = "MyMetaPathFinder"
    /\ \E fullname \in FullNames :
          h_spec' = [fullname |-> fullname, loader |-> FindSpec(sys_meta_path[1], fullname)]
    /\ h_calls' = h_calls + 1
    /\ UNCHANGED <<sys_meta_path, h_registered>>
    /\ UNCHANGED <<matchVars, walrusVars, typingVars, pureVars>>

InitHook ==
    /\ MatchIdle /\ WalrusIdle /\ TypingIdle /\ PureIdle
    /\ sys_meta_path = <<PathFinder>>
    /\ h_registered = {}
    /\ h_spec = NoSpec
    /\ h_calls = 0

NextHook ==
    \/ register_hook
    \/ find_spec

SpecHook == InitHook /\ [][NextHook]_vars

(***************************************************************************)
(* C17: convert_typing_final applied to its own output returns the same    *)
(* module: no second guard block and no second `import sys` is added.      *)
(***************************************************************************)
C17_FinalIdempotent ==
    (p_pc = "done" /\ p_fn = "convert_typing_final" /\ p_run = 2) => p_out = p_first

(***************************************************************************)
(* C18: a dataclass (decorator bare or called) without match_args=False    *)
(* and without a __match_args__ of its own gets, at the end of its body,   *)
(* `__match_args__` equal to the tuple of its annotated declarations in    *)
(* declaration order; the attributes assigned without an annotation are    *)
(* not listed; a class with match_args=False or without fields is returned *)
(* unchanged.                                                              *)
(***************************************************************************)
C18_MatchArgsAreTheFields ==
    (p_pc = "done" /\ p_fn = "convert_dataclass") =>
        LET class_def == p_in[2]
            fields    == AnnotatedFieldNames(class_def)
        IN  /\ (/\ HasDataclassDecorator(class_def)
                /\ ~HasMatchArgsFalse(class_def)
                /\ ~HasMatchArgsAttribute(class_def)
                /\ fields # <<>>)
                  => p_out[2].body = Append(class_def.body, CreateMatchArgsStatement(fields))
            /\ (HasMatchArgsFalse(class_def) \/ fields = <<>>) => p_out = p_in

(***************************************************************************)
(* C19: after convert_union no annotation contains the `|` operator: every *)
(* union, also each level of a chained union and a union inside a          *)
(* subscript, has become a two-argument typing.Union[...].                 *)
(***************************************************************************)
C19_NoUnionOperatorLeft ==
    (p_pc = "done" /\ p_fn = "convert_union") =>
        \A i \in 1..Len(p_out) :
            p_out[i].k = "Annotated" => ~ContainsBitOr(p_out[i].annotation)

(***************************************************************************)
(* C20: a text with none of the targeted constructs is returned unchanged, *)
(* character for character, by convert and by transform_typing_extensions: *)
(* whitespace-only lines, the final newline or its absence, and the        *)
(* contents of comments stay as they are.                                  *)
(***************************************************************************)
C20_TextUnchanged ==
    (/\ p_pc = "done"
     /\ p_fn \in {"convert", "transform_typing_extensions"}
     /\ NoTargetedConstruct(p_in))
        => p_out = p_in

(***************************************************************************)
(* C21: convert applies each rewriter exactly once, in the order sequence, *)
(* inline assignment, type alias, dataclass match args, typing extension,  *)
(* match, union, and returns the text of the last tree: no call of convert *)
(* ends in an error, and the rewriters applied so far followed by those    *)
(* still to be called are the seven of the claim, with the dataclass       *)
(* synthesis before the match desugaring and the typing-extension rewriter *)
(* as the typing step.                                                     *)
(***************************************************************************)
C21_ConvertOrder ==
    p_fn = "convert" =>
        /\ p_pc # "error"
        /\ p_pc = "walk" =>
              p_self.applied \o [i \in 1..Len(p_events) |-> p_events[i].node] =
                  << "convert_sequence_subscript", "convert_walrus_operator",
                     "convert_type_alias", "convert_dataclass",
                     "transform_typing_extensions", "convert_match_statement",
                     "convert_union" >>

(***************************************************************************)
(* C22: an assignment is placed in front of an if statement, or at the     *)
(* head of the body of a rewritten while loop, only for an inline          *)
(* assignment of the test of that statement: an inline assignment of a     *)
(* statement of the body or of the else block that is no recognized        *)
(* context (an assert, a return) is never moved in front of the enclosing  *)
(* if or while, and a loop whose test holds none is not rewritten.         *)
(***************************************************************************)
\* The targets of the inline assignments of a test, in order.
TestTargets(test) == [n \in 1..Len(NamedExprs(test)) |-> NamedExprs(test)[n].target]

\* The targets a line of assignments binds, in order.
LineTargets(line) == [j \in 1..Len(line.body) |-> line.body[j].target]

RECURSIVE HoistedFromTestsOnly(_, _)
\* out is the rewriting of the block src in which every if statement is
\* preceded by one line for the inline assignments of its own test (by none
\* when its test has none) and every loop begins with the line for those
\* of its own test (and is left a loop on its test when it has none).
HoistedFromTestsOnly(src, out) ==
    IF src = <<>> THEN out = <<>>
    ELSE LET item == Head(src)
             k    == IF item.s = "If" /\ NamedExprs(item.test) # <<>> THEN 1 ELSE 0
         IN  /\ Len(out) >= k + 1
             /\ HoistedFromTestsOnly(Tail(src), SubSeq(out, k + 2, Len(out)))
             /\ item.s = "If" =>
                   /\ k = 1 => /\ out[1].s = "Line"
                               /\ \A j \in 1..Len(out[1].body) : out[1].body[j].s = "Assign"
                               /\ LineTargets(out[1]) = TestTargets(item.test)
                   /\ out[k + 1].s = "If"
                   /\ HoistedFromTestsOnly(item.body, out[k + 1].body)
                   /\ HoistedFromTestsOnly(item.orelse, out[k + 1].orelse)
             /\ item.s = "While" =>
                   /\ out[1].s = "While"
                   /\ HoistedFromTestsOnly(item.orelse, out[1].orelse)
                   /\ IF NamedExprs(item.test) = <<>>
                      THEN /\ out[1].test = item.test
                           /\ HoistedFromTestsOnly(item.body, out[1].body)
                      ELSE /\ Len(out[1].body) >= 2
                           /\ LineTargets(out[1].body[1]) = TestTargets(item.test)
                           /\ HoistedFromTestsOnly(item.body,
                                                   SubSeq(out[1].body, 3, Len(out[1].body)))

C22_OnlyTestsHoisted ==
    w_pc = "done" => HoistedFromTestsOnly(w_src, w_out)

(***************************************************************************)
(* C23: for a while loop with an else block and an inline assignment in    *)
(* its test, the rewritten loop runs the else block exactly when the       *)
(* original loop does: when the test is false, not when the body breaks.   *)
(***************************************************************************)
\* The else block of the loop ran: its call is in the trace.
ElseRan(trace) == \E i \in 1..Len(trace) : trace[i][1] = "done"

C23_ElseRunsAlike ==
    (w_pc = "ran" /\ w_src \in LoopModules /\ w_src[1].orelse # <<>>) =>
        (ElseRan(w_run.after) <=> ElseRan(w_run.before))

(***************************************************************************)
(* C24: a dataclass that already declares __match_args__, by a plain or by *)
(* an annotated assignment, is returned unchanged; __match_args__ is never *)
(* listed as a field of the tuple that is written; and convert_dataclass   *)
(* applied to its own output returns the same module.                      *)
(***************************************************************************)
\* The class declares __match_args__ on a line of its body.
DeclaresMatchArgs(class_def) ==
    \E i \in 1..Len(class_def.body) :
        \/ /\ class_def.body[i].k = "Assign"
           /\ \E t \in 1..Len(class_def.body[i].targets) :
                  class_def.body[i].targets[t] = "__match_args__"
        \/ /\ class_def.body[i].k = "AnnAssign"
           /\ class_def.body[i].target = "__match_args__"

C24_DeclaredMatchArgsKept ==
    /\ (p_pc = "done" /\ p_fn = "convert_dataclass" /\ p_run = 1) =>
          /\ DeclaresMatchArgs(p_in[2]) => p_out = p_in
          /\ \A i \in 1..Len(p_out[2].body) :
                p_out[2].body[i].k = "Assign" =>
                    \A v \in 1..Len(p_out[2].body[i].value) :
                        p_out[2].body[i].value[v] # "__match_args__"
    /\ (p_pc = "done" /\ p_fn = "convert_dataclass" /\ p_run = 2) => p_out = p_first

(***************************************************************************)
(* C25: after the type-alias rewrite of a module with at least one generic *)
(* type alias the name typing is bound by a top-level `import typing`,     *)
(* already there or inserted after the __future__ imports, whatever else   *)
(* the module imports; when no alias is generic no import is added.        *)
(***************************************************************************)
\* The module holds a type alias with type parameters.
HasGenericAlias(module) ==
    \E i \in 1..Len(module) :
        module[i].k = "TypeAlias" /\ module[i].type_parameters # <<>>

\* The top-level lines `import typing` of a module.
TypingImports(module) == SelectSeq(module, LAMBDA st : st = Import("typing"))

C25_TypingImported ==
    (p_pc = "done" /\ p_fn = "type_alias") =>
        IF HasGenericAlias(p_in)
        THEN /\ TypingImports(p_out) # <<>>
             /\ TypingImports(p_in) = <<>> =>
                   \E i \in 1..Len(p_out) :
                       /\ p_out[i] = Import("typing")
                       /\ \A j \in 1..(i - 1) :
                              p_out[j].k = "ImportFrom" /\ p_out[j].module = "__future__"
        ELSE Len(TypingImports(p_out)) = Len(TypingImports(p_in))

(***************************************************************************)
(* C26: after transform_typing_extensions every use typing.X of a          *)
(* configured feature, in whatever scope `import typing` and the use       *)
(* occur, is covered by a guard, found in the source or generated, that    *)
(* assigns typing.X = typing_extensions.X under `sys.version_info < v` for *)
(* the minimum version v of X, in a block that encloses the use, before    *)
(* the statement that holds it.                                            *)
(***************************************************************************)
\* The features a statement patches: those assigned in the body of a guard
\* on their own minimum version.
PatchedBy(st) ==
    IF st.k = "If" /\ IsVersionCheck(st.test) /\ st.test.op = "<"
    THEN { st.body[i].attr : i \in
             { i \in 1..Len(st.body) :
                 /\ st.body[i].k = "AssignPatch"
                 /\ InFeatureLookup(st.body[i].attr)
                 /\ FEATURE_LOOKUP(st.body[i].attr).min_version = st.test.version } }
    ELSE {}

RECURSIVE UsesCovered(_, _)
\* Every use of a configured feature in the block comes after a guard for
\* it: patched holds the features patched before the block begins.
UsesCovered(block, patched) ==
    \/ block = <<>>
    \/ LET st == Head(block)
       IN  /\ (st.k = "Use" /\ InFeatureLookup(st.attr)) => st.attr \in patched
           /\ st.k = "If" => /\ UsesCovered(st.body, patched)
                             /\ UsesCovered(st.orelse, patched)
           /\ st.k = "FunctionDef" => UsesCovered(st.body, patched)
           /\ UsesCovered(Tail(block), patched \cup PatchedBy(st))

C26_EveryUseGuarded ==
    (te_pc = "done" /\ te_run = 1) => UsesCovered(te_out, {})

(***************************************************************************)
(* C30: while the TypingExtensionsTransformer is at a statement line, its  *)
(* _current_scope_stack holds exactly the if and def statements that       *)
(* enclose the line, outermost first (every push has its pop); so a line   *)
(* counts as inside a version check, and a nested `from typing import` is  *)
(* left as it is, only if an if statement that encloses it tests           *)
(* sys.version_info.                                                       *)
(***************************************************************************)
\* The if and def statements that enclose the statement a path names.
EnclosingNodes(tree, id) ==
    [n \in 1..Len(ScopeOf(id)) |-> NodeAt(tree, ScopeOf(id)[n])]

C30_ScopeStackIsEnclosing ==
    Transforming("leave_SimpleStatementLine") =>
        LET enclosing == EnclosingNodes(te_in, TNextEvent.id)
        IN  /\ transformer.current_scope_stack = enclosing
            /\ IsInsideVersionCheck(transformer) =>
                  \E n \in 1..Len(enclosing) :
                      enclosing[n].k = "If" /\ IsVersionCheck(enclosing[n].test)

(***************************************************************************)
(* C27: after convert_typing_final every decorator name the module relies  *)
(* on, `final` or its alias as imported from typing and the                *)
(* `__typing_final` written in place of `@typing.final`, is bound on both  *)
(* branches of an inserted guard; also in a module that uses both `@final` *)
(* and `@typing.final`.                                                    *)
(***************************************************************************)
\* Some guard of the module imports final under the name on its first
\* branch and assigns the name on its else branch.
BoundOnBothBranches(module, name) ==
    \E i \in 1..Len(module) :
        /\ module[i].k = "If" /\ IsVersionCheck(module[i].test)
        /\ \E b \in 1..Len(module[i].body) :
               /\ module[i].body[b].k = "ImportFrom" /\ module[i].body[b].module = "typing"
               /\ \E n \in 1..Len(module[i].body[b].names) :
                      module[i].body[b].names[n] = ImportAlias("final", name)
        /\ \E e \in 1..Len(module[i].orelse) : module[i].orelse[e] = AssignLambda(name)

\* The names under which the top-level lines of a module import final from
\* typing.
FinalNames(module) ==
    UNION { { module[i].names[n].alias :
                n \in { n \in 1..Len(module[i].names) : module[i].names[n].name = "final" } } :
            i \in { i \in 1..Len(module) :
                      module[i].k = "ImportFrom" /\ module[i].module = "typing" } }

\* The names of the decorators of the classes of a module.
DecoratorNames(module) ==
    UNION { { module[i].decorators[j].value :
                j \in { j \in 1..Len(module[i].decorators) :
                          module[i].decorators[j].k = "Name" } } :
            i \in { i \in 1..Len(module) : module[i].k = "ClassDef" } }

C27_DecoratorNamesBound ==
    (p_pc = "done" /\ p_fn = "convert_typing_final" /\ p_run = 1) =>
        \A name \in DecoratorNames(p_out) :
            (name = "__typing_final" \/ name \in FinalNames(p_in))
                => BoundOnBothBranches(p_out, name)

(***************************************************************************)
(* C28: after any sequence of register_hook calls the import of a module   *)
(* the other finders find is intercepted exactly if its full name is a     *)
(* registered package or a dotted descendant of one; with two or more      *)
(* packages registered each of them is still intercepted; and              *)
(* sys.meta_path holds exactly one MyMetaPathFinder.                       *)
(***************************************************************************)
C28_InterceptedIffRegistered ==
    /\ h_registered # {} =>
          Cardinality({ i \in 1..Len(sys_meta_path) :
                          sys_meta_path[i].cls = "MyMetaPathFinder" }) = 1
    /\ (h_spec # NoSpec /\ h_spec.fullname \in ModulesOnPath) =>
          (h_spec.loader = "OnTheFlyConverter"
              <=> \E prefix \in h_registered : MatchesPrefix(h_spec.fullname, prefix))

(***************************************************************************)
(* C29: during a walrus traversal that raises no error each leave_X, for X *)
(* an if, a while, an assignment, an expression statement or a list, set   *)
(* or dict comprehension, pops the list pushed by the matching visit_X;    *)
(* the depth of assignments_stack is the number of recognized contexts     *)
(* that are open; the stack is empty when the traversal ends; and every    *)
(* assignment recorded by leave_NamedExpr is emitted exactly once in the   *)
(* output.                                                                 *)
(***************************************************************************)
ContextVisits ==
    { "visit_If", "visit_While", "visit_Assign", "visit_Expr",
      "visit_ListComp", "visit_SetComp", "visit_DictComp" }

ContextLeaves ==
    { "leave_If", "leave_While", "leave_Assign", "leave_Expr",
      "leave_ListComp", "leave_SetComp", "leave_DictComp" }

\* The recognized contexts that are entered and not left yet, counted from
\* the calls still to come: every visit_X to come has its leave_X to come.
OpenContexts(events) ==
    Cardinality({ i \in 1..Len(events) : events[i].ev \in ContextLeaves })
        - Cardinality({ i \in 1..Len(events) : events[i].ev \in ContextVisits })

\* The assignments leave_NamedExpr builds for inline assignments.
AsAssignments(named) == [i \in 1..Len(named) |-> Assign(named[i].target, named[i].value)]

\* Those of the statements of a block that open no list of their own.
BlockOwn(block) ==
    ConcatAll([i \in 1..Len(block) |->
        IF block[i].s # "Line" THEN <<>>
        ELSE ConcatAll([j \in 1..Len(block[i].body) |->
                 IF block[i].body[j].s = "Assert"
                 THEN AsAssignments(NamedExprs(block[i].body[j].test))
                 ELSE <<>>])])

\* The assignments that belong to the context a leave_X call is for, read
\* from the tree: those of the inline assignments between the node and the
\* next recognized context below it, in the order they are left.
OwnAssignments(event) ==
    IF event.ev \in {"leave_If", "leave_While"}
    THEN AsAssignments(NamedExprs(event.node.test))
             \o BlockOwn(event.node.body) \o BlockOwn(event.node.orelse)
    ELSE IF event.ev \in {"leave_Assign", "leave_Expr"}
    THEN AsAssignments(NamedExprs(event.node.value))
    ELSE Recorded(event.node)

RECURSIVE AssignsIn(_)
\* The assignment statements of a block, nested ones included.
AssignsIn(block) ==
    ConcatAll([i \in 1..Len(block) |->
        IF block[i].s = "Line"
        THEN SelectSeq(block[i].body, LAMBDA st : st.s = "Assign")
        ELSE AssignsIn(block[i].body) \o AssignsIn(block[i].orelse)])

RECURSIVE RecordedIn(_)
\* The assignments recorded on the lists of the statements of a block.
RecordedIn(block) ==
    ConcatAll([i \in 1..Len(block) |->
        IF block[i].s = "Line"
        THEN ConcatAll([j \in 1..Len(block[i].body) |->
                 LET st == block[i].body[j]
                 IN  IF st.s \in {"Assign", "Expr"} THEN AsAssignments(NamedExprs(st.value))
                     ELSE IF st.s = "Assert" THEN AsAssignments(NamedExprs(st.test))
                     ELSE <<>>])
        ELSE AsAssignments(NamedExprs(block[i].test))
                 \o RecordedIn(block[i].body) \o RecordedIn(block[i].orelse)])

\* The assignment statements of the module itself, as they are rebuilt.
RebuiltAssigns(block) ==
    [i \in 1..Len(AssignsIn(block)) |->
        Assign(AssignsIn(block)[i].target, Updated(AssignsIn(block)[i].value))]

Occurrences(x, seq) == Cardinality({ i \in 1..Len(seq) : seq[i] = x })

\* The bindings a rewritten list comprehension makes besides its own
\* target: name and value, in order.
CompBindings(comp) ==
    [i \in 1..(Len(comp.for_in.target.elements) - 1) |->
        Assign(comp.for_in.target.elements[i + 1].id,
               comp.for_in.iter.elt.elements[i + 1])]

C29_StackDiscipline ==
    /\ w_pc = "walk" =>
          /\ Len(assignments_stack) = OpenContexts(w_events)
          /\ (w_events # <<>> /\ NextEvent.ev \in ContextLeaves) =>
                Top(assignments_stack) = OwnAssignments(NextEvent)
    /\ w_pc \in {"done", "ran"} =>
          /\ assignments_stack = <<>>
          /\ LET emitted  == AssignsIn(w_out)
                 recorded == RecordedIn(w_src)
                 own      == RebuiltAssigns(w_src)
             IN  \A a \in { emitted[i] : i \in 1..Len(emitted) }
                            \cup { recorded[i] : i \in 1..Len(recorded) } :
                    Occurrences(a, emitted) = Occurrences(a, recorded) + Occurrences(a, own)
          /\ (/\ w_src \in CompModules
              /\ w_src[1].body[1].value.e = "ListComp"
              /\ Recorded(w_src[1].body[1].value) # <<>>) =>
                CompBindings(w_out[1].body[1].value) = Recorded(w_src[1].body[1].value)

\* The traversal is about to leave an if statement nested in another: both
\* of their lists are on the stack and hold an assignment.
C29_Witness ==
    /\ w_pc = "walk" /\ w_events # <<>> /\ NextEvent.ev = "leave_If"
    /\ Len(assignments_stack) = 2
    /\ assignments_stack[1] # <<>> /\ assignments_stack[2] # <<>>

====
